---- MODULE Spec2Model ----
(***************************************************************************)
(* Reconciling data provider of the XingJue trade portal                   *)
(* (src/src/context/SiteDataContext.tsx) together with the remote gateway  *)
(* it calls and the browser's localStorage it mirrors into.                *)
(*                                                                         *)
(* The provider's asynchronous handlers are modelled as tasks: one action  *)
(* for the synchronous part up to the first await, and one action per      *)
(* continuation (the settling of the awaited remote call followed by the   *)
(* synchronous code up to the next await or the end of the handler).       *)
(***************************************************************************)
EXTENDS Integers, Sequences, FiniteSets, TLC

\* ------------------------------------------------------------------ bounds
MaxOps == 1          \* provider operations started after the start-up load
MaxTasks == 2        \* provider operations in flight at the same time
MaxInquiries == 2    \* inquiries the remote side hands out / list growth

\* ------------------------------------------------------- values and types
Tasks == 1..MaxTasks

\* a localized string: empty, whitespace only, or with content
Str == {"", " ", "X"}

LocalizedText == [en : Str, zh : Str]

Text(e, z) == [en |-> e, zh |-> z]

ProductIds == {"p1", "p2"}

Skus == {"a", "b"}

\* a product: its id and (standing for all its other fields) its sku
Prod(i, s) == [id |-> i, sku |-> s]

\* a site document: the fields the provider looks at, and contact standing
\* for every section the provider never inspects
SiteData(name, title, products, contact) ==
    [settings |-> [siteName |-> name], hero |-> [title |-> title],
     products |-> products, contact |-> contact]

\* String.prototype.trim on the modelled strings
trim(s) == IF s = " " THEN "" ELSE s

\* the bundled default dataset (src/data/site-data.json)
getDefaultData == SiteData(Text("X", "X"), Text("X", "X"), <<>>, "default")

\* documents the environment supplies (remote responses, admin input)
DocReal == SiteData(Text("X", "X"), Text("", ""), <<Prod("p1", "a")>>, "c")

DocBlank == SiteData(Text("", " "), Text(" ", ""), <<>>, "c")

DocDup == SiteData(Text("X", "X"), Text("X", "X"),
                   <<Prod("p1", "a"), Prod("p2", "a"), Prod("p1", "b")>>, "c")

RemoteDocs == {DocReal, DocBlank}

\* documents the admin saves or imports
InputDocs == {DocBlank, DocDup}

\* products the admin saves
InputProducts == {Prod("p1", "b"), Prod("p2", "b")}

\* status changes the admin makes
InputStatuses == {"closed"}

ServerIds == {"s1", "s2"}

LocalIds == {"l1", "l2"}

Statuses == {"new", "processing", "closed"}

Inq(i, who, st, at) == [id |-> i, name |-> who, status |-> st, createdAt |-> at]

\* the inquiry list the server holds
RemoteInquiries == <<Inq("s1", "A", "new", "server")>>

\* the error field: null, or the parts of the message
NoError == <<>>

\* ------------------------------------------------------------ localStorage
\* an item of localStorage: absent, a text that is not JSON, or the JSON
\* text of a value (the text is modelled by the value it encodes)
NoItem == [kind |-> "none", val |-> <<>>]

Garbage == [kind |-> "garbage", val |-> <<>>]

\* JSON.stringify(value, null, 2)
JSONstringify(value) == [kind |-> "json", val |-> <<value>>]

\* getStoredData: null (the empty sequence) when the key is absent or its
\* text does not parse, else the parsed document
getStoredData(item) == IF item.kind = "json" THEN item.val ELSE <<>>

\* getStoredInquiries: [] when absent or unparsable
getStoredInquiries(item) == IF item.kind = "json" THEN item.val[1] ELSE <<>>

\* saveDataToStorage / saveInquiriesToStorage: setItem, whose exception
\* (quota exceeded) is caught and logged; the item then keeps its old text
saveDataToStorage_never(item, data, quota) == item

saveDataToStorage(item, data, quota) ==
    IF quota THEN item ELSE JSONstringify(data)

saveInquiriesToStorage(item, list, quota) ==
    IF quota THEN item ELSE JSONstringify(list)

\* ---------------------------------------------------------------- heuristic
\* hasRealData: the document has content when its English site name or its
\* English hero title is non-blank or it has at least one product
hasRealData(data) ==
    \/ trim(data.settings.siteName.en) # ""
    \/ trim(data.hero.title.en) # ""
    \/ Len(data.products) > 0

storedIsReal_anyDocument(stored) == stored # <<>>

\* storedData && hasRealData(storedData)
storedIsReal(stored) == stored # <<>> /\ hasRealData(stored[1])

\* --------------------------------------------------------- remote gateway
\* outcome of one gateway call: api.* throws 'API_BASE_URL not configured'
\* when no endpoint is configured, else the call succeeds or fails in fetch
CallOutcomes(configured) == IF configured THEN {"ok", "http"} ELSE {"unconfigured"}

\* outcome of the whole-document transport of an import (PUT /site-data, POST
\* upload), where the handler tells failures apart: also 413 and the TypeError
\* 'Failed to fetch' of a refused or blocked request
TransportOutcomes(configured) ==
    IF configured THEN {"ok", "http", "too_large", "network"} ELSE {"unconfigured"}

\* outcome of POST /site-data/upload: also the 400 'File upload error: File
\* too large' that the server's error handler answers when multer refuses a
\* file above its fileSize limit
UploadOutcomes(configured) ==
    TransportOutcomes(configured) \cup (IF configured THEN {"file_limit"} ELSE {})

\* err.message of a failed call
errorMessage(outcome) ==
    CASE outcome = "unconfigured" -> "API_BASE_URL not configured"
      [] outcome = "too_large" -> "413 Content Too Large"
      [] outcome = "file_limit" -> "Failed to upload site data: 400 File too large"
      [] outcome = "network" -> "Failed to fetch"
      [] OTHER -> "Failed to fetch site data"

\* what Promise.all([api.getSiteData(), api.getInquiries()]) settles to
Response(outcome, data, list) ==
    [ok |-> outcome = "ok", data |-> data, inquiries |-> list,
     message |-> errorMessage(outcome)]

Responses(configured) ==
    {Response(o, d, l) : o \in CallOutcomes(configured) \ {"ok"},
                         d \in {DocBlank}, l \in {<<>>}}
    \cup (IF configured
          THEN {Response("ok", d, IF hasRealData(d) THEN RemoteInquiries ELSE <<>>)
                   : d \in RemoteDocs}
          ELSE {})

\* ------------------------------------------------------------------- load
loadTier_skipCache(resp, lsD) ==
    IF resp.ok /\ hasRealData(resp.data) THEN "remote" ELSE "default"

loadTier_trustRemote(resp, lsD) ==
    IF resp.ok THEN "remote"
    ELSE IF storedIsReal(getStoredData(lsD)) THEN "cache" ELSE "default"

\* the tier loadData takes its result from
loadTier(resp, lsD) ==
    IF resp.ok /\ hasRealData(resp.data) THEN "remote"
    ELSE IF storedIsReal(getStoredData(lsD)) THEN "cache" ELSE "default"

loadError_silent(resp, tier) == NoError

\* the text setError gets in the fallback branches of loadData
loadError(resp, tier) ==
    CASE tier = "remote" -> NoError
      [] tier = "cache" /\ resp.ok ->
            <<"Using cached data", "server returned empty data">>
      [] tier = "cache" ->
            <<"Using cached data", "server unavailable", resp.message>>
      [] resp.ok ->
            <<"Using default data", "server returned empty data">>
      [] OTHER ->
            <<"Using default data", "server and cache unavailable", resp.message>>

\* loadData whose default tier does not write the default document to
\* localStorage
loadData_defaultUnsaved(resp, lsD, lsI, q) ==
    LET tier == loadTier(resp, lsD)
    IN  CASE tier = "remote" ->
               [siteData |-> resp.data, inquiries |-> resp.inquiries,
                lsData |-> saveDataToStorage(lsD, resp.data, q),
                lsInquiries |-> saveInquiriesToStorage(lsI, resp.inquiries, q),
                error |-> loadError(resp, tier)]
          [] tier = "cache" ->
               [siteData |-> getStoredData(lsD)[1],
                inquiries |-> getStoredInquiries(lsI),
                lsData |-> lsD, lsInquiries |-> lsI,
                error |-> loadError(resp, tier)]
          [] OTHER ->
               [siteData |-> getDefaultData, inquiries |-> <<>>,
                lsData |-> lsD, lsInquiries |-> lsI,
                error |-> loadError(resp, tier)]

\* loadData after its await: the state it commits and the items it leaves in
\* localStorage (q: setItem throws)
loadData(resp, lsD, lsI, q) ==
    LET tier == loadTier(resp, lsD)
    IN  CASE tier = "remote" ->
               [siteData |-> resp.data, inquiries |-> resp.inquiries,
                lsData |-> saveDataToStorage(lsD, resp.data, q),
                lsInquiries |-> saveInquiriesToStorage(lsI, resp.inquiries, q),
                error |-> loadError(resp, tier)]
          [] tier = "cache" ->
               [siteData |-> getStoredData(lsD)[1],
                inquiries |-> getStoredInquiries(lsI),
                lsData |-> lsD, lsInquiries |-> lsI,
                error |-> loadError(resp, tier)]
          [] OTHER ->
               [siteData |-> getDefaultData, inquiries |-> <<>>,
                lsData |-> saveDataToStorage(lsD, getDefaultData, q),
                lsInquiries |-> lsI,
                error |-> loadError(resp, tier)]

\* ------------------------------------------------------------------ state
VARIABLES
    siteData,       \* useState: the in-memory document
    inquiries,      \* useState: the in-memory inquiry list
    isLoading,      \* useState
    error,          \* useState
    lsData,         \* localStorage item 'xj-site-data-v1'
    lsInquiries,    \* localStorage item 'xj-inquiries-v1'
    apiConfigured,  \* API_BASE_URL is non-empty
    quota,          \* localStorage.setItem throws (quota exceeded)
    tasks,          \* the handler invocations in flight
    nops,           \* operations started so far
    ev,             \* the step taken last
    backend,        \* server: the storage module index.js imported
    store,          \* server: the shards (files under DATA_DIR, or blobs)
    reply,          \* server: the request handled last and its response
    calls           \* server: the store calls suspended at an await

\* the browser side and the server side
provider == <<siteData, inquiries, isLoading, error, lsData, lsInquiries,
              apiConfigured, quota, tasks, nops, ev>>

server == <<backend, store, reply, calls>>

vars == <<provider, server>>

\* a handler invocation: its arguments, the document its closure captured,
\* the await it is suspended at, the index of its loop, and whether a setItem
\* it called has thrown
Task(op, pc, data, product, id, status, file, snap) ==
    [op |-> op, pc |-> pc, data |-> data, product |-> product, id |-> id,
     status |-> status, file |-> file, snap |-> snap, i |-> 0, threw |-> FALSE]

Idle == Task("idle", "", <<>>, <<>>, "", "", FALSE, <<>>)

\* the invocation after a step in which it called setItem
Wrote(task, q) == [task EXCEPT !.threw = @ \/ q]

NoResponse == Response("none", DocBlank, <<>>)

\* the step taken last: the invocation, the await that settled and how, the
\* state of the promise the handler returned, and what a load was answered
EventR(task, at, outcome, result, resp) ==
    [task |-> task, at |-> at, outcome |-> outcome, result |-> result,
     resp |-> resp]

Event(task, at, outcome, result) == EventR(task, at, outcome, result, NoResponse)

LoadTask == Task("loadData", "fetch", <<>>, <<>>, "", "", FALSE, <<>>)

\* what earlier sessions can have left in the two localStorage items
InitialItems ==
    LET list == JSONstringify(<<Inq("l1", "B", "new", "local")>>)
    IN  {<<NoItem, NoItem>>, <<Garbage, Garbage>>, <<NoItem, list>>,
         <<JSONstringify(DocDup), list>>, <<JSONstringify(DocBlank), list>>}

\* the server side at rest: the provider is studied against a remote gateway
\* whose answers are arbitrary
ServerIdle ==
    /\ backend = "file"
    /\ store = <<>>
    /\ reply = <<>>
    /\ calls = <<>>

\* the provider is mounted and its effect has called loadData
Init ==
    /\ ServerIdle
    /\ siteData = getDefaultData
    /\ inquiries = <<>>
    /\ isLoading = TRUE
    /\ error = NoError
    /\ \E items \in InitialItems :
          /\ lsData = items[1]
          /\ lsInquiries = items[2]
    /\ apiConfigured \in BOOLEAN
    /\ quota \in BOOLEAN
    /\ tasks = [t \in Tasks |-> IF t = 1 THEN LoadTask ELSE Idle]
    /\ nops = 0
    /\ ev = Event(LoadTask, "start", "", "pending")

\* a handler can be called: it takes the first free slot
CanStart(t) ==
    /\ tasks[t] = Idle
    /\ \A u \in Tasks : u < t => tasks[u] # Idle
    /\ nops < MaxOps

\* the documents a handler started now can have closed over: the committed
\* one, or that of the render a handler still in flight came from
Snapshots == {siteData} \cup {tasks[u].snap[1] : u \in {v \in Tasks : tasks[v].snap # <<>>}}

\* refreshData / loadData up to its await
LoadStart(t) ==
    /\ CanStart(t)
    /\ isLoading' = TRUE
    /\ error' = NoError
    /\ tasks' = [tasks EXCEPT ![t] = LoadTask]
    /\ nops' = nops + 1
    /\ ev' = Event(LoadTask, "start", "", "pending")
    /\ UNCHANGED <<siteData, inquiries, lsData, lsInquiries, apiConfigured, quota, server>>

\* loadData after its await (also the tail of importSiteData's refreshData)
LoadCommit(t, resp, result) ==
    LET r == loadData(resp, lsData, lsInquiries, quota)
    IN  /\ siteData' = r.siteData
        /\ inquiries' = r.inquiries
        /\ lsData' = r.lsData
        /\ lsInquiries' = r.lsInquiries
        /\ error' = r.error
        /\ isLoading' = FALSE
        /\ tasks' = [tasks EXCEPT ![t] = Idle]
        /\ ev' = EventR(tasks[t], tasks[t].pc,
                        IF resp.ok THEN "ok" ELSE "failed", result, resp)
        /\ UNCHANGED <<apiConfigured, quota, nops, server>>

LoadSettle(t) ==
    /\ tasks[t].op = "loadData"
    /\ \E resp \in Responses(apiConfigured) : LoadCommit(t, resp, "resolved")

\* ------------------------------------------------------------ setSiteData
\* setSiteData up to its await: commit, mirror, issue PUT /site-data
SetSiteDataStart(t, data) ==
    /\ CanStart(t)
    /\ siteData' = data
    /\ lsData' = saveDataToStorage(lsData, data, quota)
    /\ tasks' = [tasks EXCEPT ![t] =
                    Wrote(Task("setSiteData", "put", <<data>>, <<>>, "", "", FALSE, <<>>),
                          quota)]
    /\ ev' = Event(tasks'[t], "start", "", "pending")
    /\ nops' = nops + 1
    /\ UNCHANGED <<inquiries, isLoading, error, lsInquiries, apiConfigured, quota, server>>

\* the PUT settles: its failure is caught and logged
SetSiteDataSettle(t) ==
    /\ tasks[t].op = "setSiteData"
    /\ \E outcome \in CallOutcomes(apiConfigured) :
          ev' = Event(tasks[t], "put", outcome, "resolved")
    /\ tasks' = [tasks EXCEPT ![t] = Idle]
    /\ UNCHANGED <<siteData, inquiries, isLoading, error, lsData,
                   lsInquiries, apiConfigured, quota, nops, server>>

\* ---------------------------------------------------- upsert/deleteProduct
\* the product list upsertProduct builds: replace every entry with the id in
\* place, or put the product in front when no entry has the id
\* upsertInto putting a new product at the end of the list
upsertInto_append(products, product) ==
    IF \E k \in DOMAIN products : products[k].id = product.id
    THEN [k \in DOMAIN products |->
             IF products[k].id = product.id THEN product ELSE products[k]]
    ELSE products \o <<product>>

upsertInto(products, product) ==
    IF \E k \in DOMAIN products : products[k].id = product.id
    THEN [k \in DOMAIN products |->
             IF products[k].id = product.id THEN product ELSE products[k]]
    ELSE <<product>> \o products

removeFrom_first(products, productId) ==
    IF products = <<>> THEN <<>> ELSE Tail(products)

\* the product list deleteProduct builds
removeFrom(products, productId) ==
    LET keep(item) == item.id # productId IN SelectSeq(products, keep)

withProducts(data, products) == [data EXCEPT !.products = products]

\* upsertProduct up to its await: POST /site-data/products is issued; the
\* closure holds the document of the render the handler comes from
UpsertProductStart(t, product) ==
    /\ CanStart(t)
    /\ \E snap \in Snapshots :
          tasks' = [tasks EXCEPT ![t] =
                       Task("upsertProduct", "post", <<>>, <<product>>, product.id, "",
                            FALSE, <<snap>>)]
    /\ ev' = Event(tasks'[t], "start", "", "pending")
    /\ nops' = nops + 1
    /\ UNCHANGED <<siteData, inquiries, isLoading, error, lsData,
                   lsInquiries, apiConfigured, quota, server>>

DeleteProductStart(t, productId) ==
    /\ CanStart(t)
    /\ \E snap \in Snapshots :
          tasks' = [tasks EXCEPT ![t] =
                       Task("deleteProduct", "delete", <<>>, <<>>, productId, "",
                            FALSE, <<snap>>)]
    /\ ev' = Event(tasks'[t], "start", "", "pending")
    /\ nops' = nops + 1
    /\ UNCHANGED <<siteData, inquiries, isLoading, error, lsData,
                   lsInquiries, apiConfigured, quota, server>>

\* the document either handler commits after its first await
productNext(task) ==
    IF task.op = "upsertProduct"
    THEN withProducts(task.snap[1], upsertInto(task.snap[1].products, task.product[1]))
    ELSE withProducts(task.snap[1], removeFrom(task.snap[1].products, task.id))

\* the per-product call settles: commit and mirror the new list; when the call
\* failed, go on to PUT the whole document
ProductSettle(t) ==
    /\ tasks[t].op \in {"upsertProduct", "deleteProduct"}
    /\ tasks[t].pc \in {"post", "delete"}
    /\ \E outcome \in CallOutcomes(apiConfigured) :
          LET next == productNext(tasks[t])
          IN  /\ siteData' = next
              /\ lsData' = saveDataToStorage(lsData, next, quota)
              /\ tasks' = [tasks EXCEPT ![t] =
                              IF outcome = "ok" THEN Idle
                              ELSE [Wrote(tasks[t], quota) EXCEPT
                                       !.pc = "put", !.data = <<next>>]]
              /\ ev' = Event(Wrote(tasks[t], quota), tasks[t].pc, outcome,
                             IF outcome = "ok" THEN "resolved" ELSE "pending")
    /\ UNCHANGED <<inquiries, isLoading, error, lsInquiries,
                   apiConfigured, quota, nops, server>>

ProductFallbackSettle_rollback(t) ==
    /\ tasks[t].op \in {"upsertProduct", "deleteProduct"}
    /\ tasks[t].pc = "put"
    /\ \E outcome \in CallOutcomes(apiConfigured) :
          /\ ev' = Event(tasks[t], "put", outcome, "resolved")
          /\ siteData' = IF outcome = "ok" THEN siteData ELSE tasks[t].snap[1]
    /\ tasks' = [tasks EXCEPT ![t] = Idle]
    /\ UNCHANGED <<inquiries, isLoading, error, lsData,
                   lsInquiries, apiConfigured, quota, nops, server>>

\* the fallback PUT settles: its failure is caught and logged
ProductFallbackSettle(t) ==
    /\ tasks[t].op \in {"upsertProduct", "deleteProduct"}
    /\ tasks[t].pc = "put"
    /\ \E outcome \in CallOutcomes(apiConfigured) :
          ev' = Event(tasks[t], "put", outcome, "resolved")
    /\ tasks' = [tasks EXCEPT ![t] = Idle]
    /\ UNCHANGED <<siteData, inquiries, isLoading, error, lsData,
                   lsInquiries, apiConfigured, quota, nops, server>>

\* ---------------------------------------------------------------- inquiries
idsOf(list) == {list[k].id : k \in DOMAIN list}

\* addInquiry up to its await: POST /inquiries is issued
AddInquiryStart(t, who) ==
    /\ CanStart(t)
    /\ Len(inquiries) < MaxInquiries
    /\ tasks' = [tasks EXCEPT ![t] =
                    Task("addInquiry", "post", <<>>, <<>>, who, "", FALSE, <<>>)]
    /\ ev' = Event(tasks'[t], "start", "", "pending")
    /\ nops' = nops + 1
    /\ UNCHANGED <<siteData, inquiries, isLoading, error, lsData,
                   lsInquiries, apiConfigured, quota, server>>

newInquiry_alwaysLocal(outcome, id, who) == Inq(id, who, "new", "local")

\* the inquiry addInquiry puts in front: the server's answer, or one built
\* locally (crypto.randomUUID, new Date) when the call failed
newInquiry(outcome, id, who) ==
    IF outcome = "ok" THEN Inq(id, who, "new", "server")
    ELSE Inq(id, who, "new", "local")

AddInquirySettle_append(t) ==
    /\ tasks[t].op = "addInquiry"
    /\ \E outcome \in CallOutcomes(apiConfigured) :
       \E id \in (IF outcome = "ok" THEN ServerIds ELSE LocalIds) \ idsOf(inquiries) :
          LET next == inquiries \o <<newInquiry(outcome, id, tasks[t].id)>>
          IN  /\ inquiries' = next
              /\ lsInquiries' = saveInquiriesToStorage(lsInquiries, next, quota)
              /\ ev' = Event(Wrote(tasks[t], quota), "post", outcome, "resolved")
    /\ tasks' = [tasks EXCEPT ![t] = Idle]
    /\ UNCHANGED <<siteData, isLoading, error, lsData, apiConfigured, quota, nops, server>>

AddInquirySettle(t) ==
    /\ tasks[t].op = "addInquiry"
    /\ \E outcome \in CallOutcomes(apiConfigured) :
       \E id \in (IF outcome = "ok" THEN ServerIds ELSE LocalIds) \ idsOf(inquiries) :
          LET next == <<newInquiry(outcome, id, tasks[t].id)>> \o inquiries
          IN  /\ inquiries' = next
              /\ lsInquiries' = saveInquiriesToStorage(lsInquiries, next, quota)
              /\ ev' = Event(Wrote(tasks[t], quota), "post", outcome, "resolved")
    /\ tasks' = [tasks EXCEPT ![t] = Idle]
    /\ UNCHANGED <<siteData, isLoading, error, lsData, apiConfigured, quota, nops, server>>

\* the list updateInquiryStatus builds
withStatus(list, id, status) ==
    [k \in DOMAIN list |->
        IF list[k].id = id THEN [list[k] EXCEPT !.status = status] ELSE list[k]]

\* updateInquiryStatus up to its await: commit, mirror, issue the PATCH
UpdateInquiryStatusStart(t, id, status) ==
    /\ CanStart(t)
    /\ LET next == withStatus(inquiries, id, status)
       IN  /\ inquiries' = next
           /\ lsInquiries' = saveInquiriesToStorage(lsInquiries, next, quota)
    /\ tasks' = [tasks EXCEPT ![t] =
                    Wrote(Task("updateInquiryStatus", "patch", <<>>, <<>>, id, status,
                               FALSE, <<>>), quota)]
    /\ ev' = Event(tasks'[t], "start", "", "pending")
    /\ nops' = nops + 1
    /\ UNCHANGED <<siteData, isLoading, error, lsData, apiConfigured, quota, server>>

UpdateInquiryStatusSettle(t) ==
    /\ tasks[t].op = "updateInquiryStatus"
    /\ \E outcome \in CallOutcomes(apiConfigured) :
          ev' = Event(tasks[t], "patch", outcome, "resolved")
    /\ tasks' = [tasks EXCEPT ![t] = Idle]
    /\ UNCHANGED <<siteData, inquiries, isLoading, error, lsData,
                   lsInquiries, apiConfigured, quota, nops, server>>

\* ------------------------------------------------------------ importSiteData
\* products per Promise.all batch of the partial-update fallback
batchSize == 10

is413Error_anyFailure(outcome, file) == outcome # "ok"

\* is413Error: the message of the failed transport names 413 / too large
\* (api.uploadSiteData rewrites the TypeError of a blocked upload into a
\* message that contains the 'file too large' text)
is413Error(outcome, file) ==
    outcome = "too_large" \/ (file /\ outcome = "network")

\* isNetworkError: the error is a TypeError whose message is 'Failed to fetch'
isNetworkError(outcome, file) == ~file /\ outcome = "network"

\* the message importSiteData rethrows with
importError(task, stage, outcome) ==
    CASE stage = "transport" /\ task.file -> <<"upload failed", errorMessage(outcome)>>
      [] stage = "transport" -> <<"Failed to save to server", errorMessage(outcome)>>
      [] task.file -> <<"upload failed and partial update failed", errorMessage(outcome)>>
      [] OTHER -> <<"Failed to save to server (data too large)", errorMessage(outcome)>>

\* importSiteData up to its first await: the upload (with a file) or the PUT
ImportStart(t, data, file) ==
    /\ CanStart(t)
    /\ tasks' = [tasks EXCEPT ![t] =
                    Task("importSiteData", "transport", <<data>>, <<>>, "", "", file, <<>>)]
    /\ ev' = Event(tasks'[t], "start", "", "pending")
    /\ nops' = nops + 1
    /\ UNCHANGED <<siteData, inquiries, isLoading, error, lsData, lsInquiries,
                   apiConfigured, quota, server>>

\* the server has the document: commit it, mirror it, and call refreshData,
\* which runs loadData up to its await
ImportCommit(t, at, outcome) ==
    /\ siteData' = tasks[t].data[1]
    /\ lsData' = saveDataToStorage(lsData, tasks[t].data[1], quota)
    /\ isLoading' = TRUE
    /\ error' = NoError
    /\ tasks' = [tasks EXCEPT ![t] = [Wrote(tasks[t], quota) EXCEPT !.pc = "refresh"]]
    /\ ev' = Event(Wrote(tasks[t], quota), at, outcome, "pending")
    /\ UNCHANGED <<inquiries, lsInquiries, apiConfigured, quota, nops, server>>

ImportReject_commits(t, at, outcome) ==
    /\ error' = importError(tasks[t], at, outcome)
    /\ siteData' = tasks[t].data[1]
    /\ lsData' = saveDataToStorage(lsData, tasks[t].data[1], quota)
    /\ tasks' = [tasks EXCEPT ![t] = Idle]
    /\ ev' = Event(tasks[t], at, outcome, "rejected")
    /\ UNCHANGED <<inquiries, isLoading, lsInquiries, apiConfigured, quota, nops, server>>

\* the outer catch rethrowing without setError
ImportReject_silent(t, at, outcome) ==
    /\ tasks' = [tasks EXCEPT ![t] = Idle]
    /\ ev' = Event(tasks[t], at, outcome, "rejected")
    /\ UNCHANGED <<siteData, inquiries, isLoading, error, lsData, lsInquiries,
                   apiConfigured, quota, nops, server>>

\* the outer catch: setError(message) and rethrow
ImportReject(t, at, outcome) ==
    /\ error' = importError(tasks[t], at, outcome)
    /\ tasks' = [tasks EXCEPT ![t] = Idle]
    /\ ev' = Event(tasks[t], at, outcome, "rejected")
    /\ UNCHANGED <<siteData, inquiries, isLoading, lsData, lsInquiries,
                   apiConfigured, quota, nops, server>>

\* the whole-document transport settles
ImportTransportSettle(t) ==
    /\ tasks[t].op = "importSiteData"
    /\ tasks[t].pc = "transport"
    /\ \E outcome \in (IF tasks[t].file THEN UploadOutcomes(apiConfigured)
                        ELSE TransportOutcomes(apiConfigured)) :
          IF outcome = "ok" THEN ImportCommit(t, "transport", outcome)
          ELSE IF is413Error(outcome, tasks[t].file) \/ isNetworkError(outcome, tasks[t].file)
          THEN /\ tasks' = [tasks EXCEPT ![t] = [tasks[t] EXCEPT !.pc = "sections"]]
               /\ ev' = Event(tasks[t], "transport", outcome, "pending")
               /\ UNCHANGED <<siteData, inquiries, isLoading, error, lsData,
                              lsInquiries, apiConfigured, quota, nops, server>>
          ELSE ImportReject(t, "transport", outcome)

\* Promise.all of the twelve updateSiteSection calls settles
ImportSectionsSettle(t) ==
    /\ tasks[t].op = "importSiteData"
    /\ tasks[t].pc = "sections"
    /\ \E outcome \in CallOutcomes(apiConfigured) :
          IF outcome # "ok" THEN ImportReject(t, "sections", outcome)
          ELSE IF Len(tasks[t].data[1].products) > 0
          THEN /\ tasks' = [tasks EXCEPT ![t] = [tasks[t] EXCEPT !.pc = "batch", !.i = 0]]
               /\ ev' = Event(tasks[t], "sections", outcome, "pending")
               /\ UNCHANGED <<siteData, inquiries, isLoading, error, lsData,
                              lsInquiries, apiConfigured, quota, nops, server>>
          ELSE ImportCommit(t, "sections", outcome)

\* Promise.all of one batch of api.upsertProduct calls settles
ImportBatchSettle(t) ==
    /\ tasks[t].op = "importSiteData"
    /\ tasks[t].pc = "batch"
    /\ \E outcome \in CallOutcomes(apiConfigured) :
          IF outcome # "ok" THEN ImportReject(t, "batch", outcome)
          ELSE IF tasks[t].i + batchSize < Len(tasks[t].data[1].products)
          THEN /\ tasks' = [tasks EXCEPT ![t] =
                               [tasks[t] EXCEPT !.i = tasks[t].i + batchSize]]
               /\ ev' = Event(tasks[t], "batch", outcome, "pending")
               /\ UNCHANGED <<siteData, inquiries, isLoading, error, lsData,
                              lsInquiries, apiConfigured, quota, nops, server>>
          ELSE ImportCommit(t, "batch", outcome)

\* the loadData of refreshData settles, and importSiteData returns
ImportRefreshSettle(t) ==
    /\ tasks[t].op = "importSiteData"
    /\ tasks[t].pc = "refresh"
    /\ \E resp \in Responses(apiConfigured) : LoadCommit(t, resp, "resolved")

Next ==
    \/ \E t \in Tasks : LoadStart(t)
    \/ \E t \in Tasks : LoadSettle(t)
    \/ \E t \in Tasks, data \in InputDocs : SetSiteDataStart(t, data)
    \/ \E t \in Tasks : SetSiteDataSettle(t)
    \/ \E t \in Tasks, product \in InputProducts : UpsertProductStart(t, product)
    \/ \E t \in Tasks, productId \in ProductIds : DeleteProductStart(t, productId)
    \/ \E t \in Tasks : ProductSettle(t)
    \/ \E t \in Tasks : ProductFallbackSettle(t)
    \/ \E t \in Tasks, who \in {"A"} : AddInquiryStart(t, who)
    \/ \E t \in Tasks : AddInquirySettle(t)
    \/ \E t \in Tasks, id \in {"s1", "l1"}, status \in InputStatuses :
          UpdateInquiryStatusStart(t, id, status)
    \/ \E t \in Tasks : UpdateInquiryStatusSettle(t)
    \/ \E t \in Tasks, data \in InputDocs, file \in BOOLEAN : ImportStart(t, data, file)
    \/ \E t \in Tasks : ImportTransportSettle(t)
    \/ \E t \in Tasks : ImportSectionsSettle(t)
    \/ \E t \in Tasks : ImportBatchSettle(t)
    \/ \E t \in Tasks : ImportRefreshSettle(t)

Spec == Init /\ [][Next]_vars

\* ------------------------------------------------- the heuristic on its own
\* documents to classify: every combination of the strings in the two names,
\* with and without a product, with and without other content
ProbeDocs ==
    {SiteData(n, h, ps, c) : n \in LocalizedText, h \in LocalizedText,
                             ps \in {<<>>, <<Prod("p1", "a")>>}, c \in {"", "c"}}

InitHeuristic ==
    /\ ServerIdle
    /\ siteData \in ProbeDocs
    /\ inquiries = <<>>
    /\ isLoading = FALSE
    /\ error = NoError
    /\ lsData = NoItem
    /\ lsInquiries = NoItem
    /\ apiConfigured = FALSE
    /\ quota = FALSE
    /\ tasks = [t \in Tasks |-> Idle]
    /\ nops = 0
    /\ ev = Event(Idle, "", "", "")

\* hasRealData(siteData) is evaluated
Classify ==
    /\ ev.at = ""
    /\ ev' = Event(Idle, "hasRealData",
                   IF hasRealData(siteData) THEN "real" ELSE "empty", "")
    /\ UNCHANGED <<siteData, inquiries, isLoading, error, lsData, lsInquiries,
                   apiConfigured, quota, tasks, nops, server>>

SpecHeuristic == InitHeuristic /\ [][Classify]_vars

\* ------------------------------------- product handlers on a loaded document
\* the documents the admin's product list is showing
LoadedDocs == {DocReal, DocDup}

\* the document is loaded and mirrored, and the admin has just saved a
\* product: upsertProduct is awaiting its POST
InitProducts ==
    /\ ServerIdle
    /\ siteData \in LoadedDocs
    /\ inquiries = <<>>
    /\ isLoading = FALSE
    /\ error = NoError
    /\ apiConfigured \in BOOLEAN
    /\ quota \in BOOLEAN
    /\ lsData = saveDataToStorage(NoItem, siteData, quota)
    /\ lsInquiries = NoItem
    /\ \E product \in InputProducts :
          tasks = [t \in Tasks |->
                     IF t = 1
                     THEN Task("upsertProduct", "post", <<>>, <<product>>, product.id,
                               "", FALSE, <<siteData>>)
                     ELSE Idle]
    /\ nops = 0
    /\ ev = Event(tasks[1], "start", "", "pending")

NextProducts ==
    \/ \E t \in Tasks, product \in InputProducts : UpsertProductStart(t, product)
    \/ \E t \in Tasks, productId \in ProductIds : DeleteProductStart(t, productId)
    \/ \E t \in Tasks : ProductSettle(t)
    \/ \E t \in Tasks : ProductFallbackSettle(t)

SpecProducts == InitProducts /\ [][NextProducts]_vars

\* ------------------------------------------------- export and import again
\* exportSiteData: the text of the in-memory document
exportSiteData == JSONstringify(siteData)

\* JSON.parse of a text that is JSON
JSONparse(item) == item.val[1]

\* documents the provider can hold when the admin opens the data-sync page
HeldDocs == {DocReal, DocBlank, DocDup}

\* the admin has exported the document and handed the parsed text to
\* importSiteData (pasted, or as a file), which is awaiting its transport
InitRoundTrip ==
    /\ ServerIdle
    /\ siteData \in HeldDocs
    /\ inquiries = <<>>
    /\ isLoading = FALSE
    /\ error = NoError
    /\ apiConfigured \in BOOLEAN
    /\ quota \in BOOLEAN
    /\ lsData = saveDataToStorage(NoItem, siteData, quota)
    /\ lsInquiries = NoItem
    /\ \E file \in BOOLEAN :
          tasks = [t \in Tasks |->
                     IF t = 1
                     THEN Task("importSiteData", "transport",
                               <<JSONparse(exportSiteData)>>, <<>>, "", "", file, <<>>)
                     ELSE Idle]
    /\ nops = 0
    /\ ev = Event(tasks[1], "start", "", "pending")

NextRoundTrip ==
    \/ \E t \in Tasks, file \in BOOLEAN :
          ImportStart(t, JSONparse(exportSiteData), file)
    \/ \E t \in Tasks : ImportTransportSettle(t)
    \/ \E t \in Tasks : ImportSectionsSettle(t)
    \/ \E t \in Tasks : ImportBatchSettle(t)
    \/ \E t \in Tasks : ImportRefreshSettle(t)

SpecRoundTrip == InitRoundTrip /\ [][NextRoundTrip]_vars

\* ============================================ sharded document store (server)
\* updateSiteSection's fileMap: the twelve section names
fileMap ==
    {"settings", "hero", "advantages", "partners", "tradeRegions", "categories",
     "featuredProductIds", "about", "contact", "seo", "locales", "defaultLocale"}

\* the sections whose shards are modelled: a list with a non-empty default, the
\* scalar, an object merged with its skeleton, and a list with an empty default
\* (the other eight go through the same code as settings or featuredProductIds)
Sections == {"locales", "defaultLocale", "settings", "featuredProductIds"}

StoredInquiryIds == {"i1", "i2"}

\* shard names (file names without '.json')
ProductShard(id) == "products/" \o id

InquiryShard(id) == "inquiries/" \o id

ShardNames ==
    fileMap \cup {"productIds", "inquiryIds"}
            \cup {ProductShard(id) : id \in ProductIds}
            \cup {InquiryShard(id) : id \in StoredInquiryIds}

\* the content of a shard: NoItem (no such file or blob), Blank (empty text),
\* RawText (a text that is not JSON) or the JSON text of a value
Blank == [kind |-> "blank", val |-> <<>>]

RawText(chars) == [kind |-> "garbage", val |-> <<chars>>]

\* null
Null == [null |-> TRUE]

IsNull(value) == DOMAIN value = {"null"}

\* a string that is itself the JSON text of a string, and the string it encodes
IsQuoted(string) == string \in {"\"en\"", "\"zh\""}

Unquote(string) ==
    CASE string = "\"en\"" -> "en"
      [] string = "\"zh\"" -> "zh"
      [] OTHER -> string

\* what a read hands back: a value, or an exception
Returned(value) == [threw |-> FALSE, val |-> <<value>>]

Thrown == [threw |-> TRUE, val |-> <<>>]

\* the defaultLocale branch with a single JSON.parse
readDefaultLocale_parseOnce(text, defaultValue) ==
    IF text.kind = "json" THEN text.val[1]
    ELSE IF Unquote(text.val[1]) = "" THEN defaultValue ELSE Unquote(text.val[1])

\* the defaultLocale branch of readJsonFile / readJsonBlob: a string that was
\* JSON-encoded twice is decoded again; a text that is not JSON is taken as the
\* string itself
readDefaultLocale(text, defaultValue) ==
    IF text.kind = "json"
    THEN IF IsQuoted(text.val[1]) THEN Unquote(text.val[1]) ELSE text.val[1]
    ELSE IF Unquote(text.val[1]) = "" THEN defaultValue ELSE Unquote(text.val[1])

\* readJsonFile: the default for a missing, empty or unparsable file
readJsonFile(filename, text, defaultValue) ==
    CASE text.kind \in {"none", "blank"} -> Returned(defaultValue)
      [] filename = "defaultLocale" -> Returned(readDefaultLocale(text, defaultValue))
      [] text.kind = "json" -> Returned(text.val[1])
      [] OTHER -> Returned(defaultValue)

\* readJsonBlob without the branch for a blob that does not exist
readJsonBlob_noDefault(filename, text, defaultValue) ==
    CASE text.kind = "none" -> Thrown
      [] text.kind = "blank" -> Returned(defaultValue)
      [] filename = "defaultLocale" -> Returned(readDefaultLocale(text, defaultValue))
      [] text.kind = "json" ->
            IF DOMAIN text.val[1] = {} THEN Returned(defaultValue)
            ELSE Returned(text.val[1])
      [] OTHER -> Thrown

\* readJsonBlob: the default for a missing or empty blob and for the texts
\* '{}' and '[]'; JSON.parse failing lands in a catch block that reads the
\* block-scoped 'text' of the try block, which throws ReferenceError
readJsonBlob(filename, text, defaultValue) ==
    CASE text.kind \in {"none", "blank"} -> Returned(defaultValue)
      [] filename = "defaultLocale" -> Returned(readDefaultLocale(text, defaultValue))
      [] text.kind = "json" ->
            IF DOMAIN text.val[1] = {} THEN Returned(defaultValue)
            ELSE Returned(text.val[1])
      [] OTHER -> Thrown

readJson(module, filename, text, defaultValue) ==
    IF module = "file" THEN readJsonFile(filename, text, defaultValue)
    ELSE readJsonBlob(filename, text, defaultValue)

\* writeJsonFile encoding a defaultLocale string without decoding it first
writeJsonFile_encodeAgain(filename, data) ==
    IF filename = "defaultLocale"
    THEN JSONstringify("\"" \o data \o "\"")
    ELSE JSONstringify(data)

\* writeJsonFile / writeJsonBlob: the text written; a defaultLocale string that
\* parses as a JSON string is decoded before it is encoded
writeJsonFile(filename, data) ==
    IF filename = "defaultLocale"
    THEN JSONstringify(IF IsQuoted(data) THEN Unquote(data) ELSE data)
    ELSE JSONstringify(data)

writeJsonBlob(filename, data) ==
    IF filename = "defaultLocale"
    THEN JSONstringify(IF IsQuoted(data) THEN Unquote(data) ELSE data)
    ELSE JSONstringify(data)

writeJson(module, filename, data) ==
    IF module = "file" THEN writeJsonFile(filename, data)
    ELSE writeJsonBlob(filename, data)

\* getDefaultSettings: the skeleton (a localized text, a plain string and
\* seoDefaults with one of its localized texts stand for its fields)
getDefaultSettings ==
    [siteName |-> [en |-> "", zh |-> ""], logoUrl |-> "",
     seoDefaults |-> [title |-> [en |-> "", zh |-> ""]]]

\* the keys of a type-conforming section whose values are objects
ObjectKeys == {"siteName", "seoDefaults", "title"}

\* deepMerge of fileStorage: the skeleton, overwritten key by key by the shard,
\* recursing where the shard's value is an object
RECURSIVE deepMergeFile(_, _)
deepMergeFile(target, source) ==
    [key \in DOMAIN target \cup DOMAIN source |->
        IF key \notin DOMAIN source THEN target[key]
        ELSE IF key \in ObjectKeys
        THEN deepMergeFile(IF key \in DOMAIN target THEN target[key] ELSE <<>>,
                           source[key])
        ELSE source[key]]

\* deepMerge of blobStorage without the recursion
deepMergeBlob_shallow(target, source) ==
    [key \in DOMAIN source \cup DOMAIN target |->
        IF key \notin DOMAIN source THEN target[key] ELSE source[key]]

\* deepMerge of blobStorage: the shard, completed key by key from the skeleton,
\* recursing where both values are objects
RECURSIVE deepMergeBlob(_, _)
deepMergeBlob(target, source) ==
    [key \in DOMAIN source \cup DOMAIN target |->
        IF key \notin DOMAIN source THEN target[key]
        ELSE IF key \in DOMAIN target /\ key \in ObjectKeys
        THEN deepMergeBlob(target[key], source[key])
        ELSE source[key]]

deepMerge(module, target, source) ==
    IF module = "file" THEN deepMergeFile(target, source)
    ELSE deepMergeBlob(target, source)

\* getProduct: null for a missing or unreadable record (the blob module
\* catches what readJsonBlob throws)
getProduct(module, shards, id) ==
    LET read == readJson(module, ProductShard(id), shards[ProductShard(id)], Null)
    IN  IF read.threw THEN Null ELSE read.val[1]

\* getAllProducts without the filter of the records that could not be read
getAllProducts_unfiltered(module, shards) ==
    LET read == readJson(module, "productIds", shards["productIds"], <<>>)
        productIds == IF read.threw THEN <<>> ELSE read.val[1]
    IN  [k \in DOMAIN productIds |-> getProduct(module, shards, productIds[k])]

\* getAllProducts: the readable records of the ids in the index, in index
\* order; [] when the index cannot be read
getAllProducts(module, shards) ==
    LET read == readJson(module, "productIds", shards["productIds"], <<>>)
        productIds == IF read.threw THEN <<>> ELSE read.val[1]
        products == [k \in DOMAIN productIds |-> getProduct(module, shards, productIds[k])]
        readable(product) == ~IsNull(product)
    IN  SelectSeq(products, readable)

\* getSiteData: the document assembled from the shards, or the exception
\* 'Failed to get site data' when a read threw
getSiteData(module, shards) ==
    LET locales == readJson(module, "locales", shards["locales"], <<"en", "zh">>)
        defaultLocale == readJson(module, "defaultLocale", shards["defaultLocale"], "en")
        settings == readJson(module, "settings", shards["settings"], Null)
        featuredProductIds ==
            readJson(module, "featuredProductIds", shards["featuredProductIds"], <<>>)
    IN  IF locales.threw \/ defaultLocale.threw \/ settings.threw
           \/ featuredProductIds.threw
        THEN Thrown
        ELSE Returned(
               [locales |-> locales.val[1],
                defaultLocale |-> IF defaultLocale.val[1] = "" THEN "en"
                                  ELSE defaultLocale.val[1],
                settings |-> IF IsNull(settings.val[1]) THEN getDefaultSettings
                             ELSE deepMerge(module, getDefaultSettings, settings.val[1]),
                featuredProductIds |-> featuredProductIds.val[1],
                products |-> getAllProducts(module, shards)])

\* Error(message) thrown by a store function
ThrownError(message) == [threw |-> TRUE, val |-> <<message>>]

\* what a store function leaves behind and hands back
Effect(shards, result) == [store |-> shards, res |-> result]

\* a write that the file system or the blob service can refuse: failAt is the
\* number of the write of this call that fails (0: none does)
WriteOutcomes == {0, 1, 2}

\* array.includes(id)
includes(array, id) == \E k \in DOMAIN array : array[k] = id

\* { ...object, ...updates }
Spread(object, updates) ==
    [key \in DOMAIN object \cup DOMAIN updates |->
        IF key \in DOMAIN updates THEN updates[key] ELSE object[key]]

\* fileMap is an object literal, so fileMap[section] also finds the properties
\* it inherits from Object.prototype (constructor stands for them): a function
\* or an object, which passes the test "if (!filename)"
InheritedKeys == {"constructor"}

\* the blob path that the template string builds from such a value
StrayShard == "function Object() { [native code] }"

\* updateSiteSection: a name for which fileMap[section] is undefined is
\* refused, else the shard is rewritten (the blob module reads it back only to
\* log). For an inherited property path.join throws TypeError in writeJsonFile,
\* while writeJsonBlob writes the blob of the path built from it
updateSiteSection(module, shards, section, data, failAt) ==
    IF section \in InheritedKeys
    THEN IF module = "file" \/ failAt = 1
         THEN Effect(shards, ThrownError("Failed to update"))
         ELSE Effect([shards EXCEPT ![StrayShard] = JSONstringify(data)], Returned(TRUE))
    ELSE IF section \notin fileMap
    THEN Effect(shards, ThrownError("Invalid section"))
    ELSE IF failAt = 1
    THEN Effect(shards, ThrownError("Failed to update"))
    ELSE Effect([shards EXCEPT ![section] = writeJson(module, section, data)],
                Returned(TRUE))

\* upsertProduct: the record is written, then the index when it lacks the id
upsertProduct(module, shards, product, failAt) ==
    LET written == [shards EXCEPT ![ProductShard(product.id)] =
                        writeJson(module, ProductShard(product.id), product)]
        read == readJson(module, "productIds", written["productIds"], <<>>)
    IN  IF failAt = 1 THEN Effect(shards, ThrownError("Failed to upsert product"))
        ELSE IF read.threw THEN Effect(written, ThrownError("Failed to upsert product"))
        ELSE IF includes(read.val[1], product.id) THEN Effect(written, Returned(product))
        ELSE IF failAt = 2 THEN Effect(written, ThrownError("Failed to upsert product"))
        ELSE Effect([written EXCEPT !["productIds"] =
                        writeJson(module, "productIds", Append(read.val[1], product.id))],
                    Returned(product))

\* array.filter(pid => pid !== id)
without(array, id) ==
    LET differs(pid) == pid # id
    IN  SelectSeq(array, differs)

\* the outcomes of deleteProduct's three steps: failAt is the step that fails
\* (0: none; 1: the removal of the record; 2, 3: the writes of the two lists)
DeleteOutcomes == {0, 1, 2, 3}

\* the removal of the record shard. fileStorage calls unlinkSync, which the
\* module does not import, when the file exists: ReferenceError. blobStorage's
\* deleteBlob swallows a failure of del and the call goes on
removeRecord(module, shards, id, failAt) ==
    IF module = "file"
    THEN IF shards[ProductShard(id)].kind = "none" THEN Effect(shards, Returned(TRUE))
         ELSE Effect(shards, ThrownError("ReferenceError"))
    ELSE IF failAt = 1 THEN Effect(shards, Returned(FALSE))
         ELSE Effect([shards EXCEPT ![ProductShard(id)] = NoItem], Returned(TRUE))

\* deleteProduct: the record is removed, then the id is filtered out of the
\* index, then out of featuredProductIds
deleteProduct(module, shards, id, failAt) ==
    LET removed == removeRecord(module, shards, id, failAt)
        failed(left) == Effect(left, ThrownError("Failed to delete product"))
        index == readJson(module, "productIds", removed.store["productIds"], <<>>)
        indexed == [removed.store EXCEPT !["productIds"] =
                        writeJson(module, "productIds", without(index.val[1], id))]
        featured == readJson(module, "featuredProductIds",
                             indexed["featuredProductIds"], <<>>)
    IN  IF removed.res.threw THEN failed(shards)
        ELSE IF index.threw \/ failAt = 2 THEN failed(removed.store)
        ELSE IF featured.threw \/ failAt = 3 THEN failed(indexed)
        ELSE Effect([indexed EXCEPT !["featuredProductIds"] =
                        writeJson(module, "featuredProductIds",
                                  without(featured.val[1], id))],
                    Returned(TRUE))

\* the texts that new Date(text) reads as a date, earliest first; the last
\* four are what new Date().toISOString() gives at the server's successive
\* requests, the first one is earlier than any of them
Calendar ==
    <<"2023-12-31", "2024-01-01", "2024-01-02", "2024-01-03", "2024-01-04", "2024-01-05">>

\* new Date().toISOString() while the tick-th request is served
toISOString(tick) == Calendar[tick + 2]

\* new Date(text) is a date (its time value is not NaN)
IsDate(text) == \E k \in DOMAIN Calendar : Calendar[k] = text

\* the time value of new Date(text) for such a text
getTime(text) == CHOOSE k \in DOMAIN Calendar : Calendar[k] = text

\* createInquiry: id, createdAt and status of the body are kept when it has
\* them; the record is written under the id, then the index when it lacks it
createInquiry(module, shards, inquiry, generated, now, failAt) ==
    LET has(key) == key \in DOMAIN inquiry /\ inquiry[key] # ""
        id == IF has("id") THEN inquiry.id ELSE generated
        stored == Spread(inquiry,
                        [id |-> id,
                         createdAt |-> IF has("createdAt") THEN inquiry.createdAt ELSE now,
                         status |-> IF has("status") THEN inquiry.status ELSE "new"])
        written == [shards EXCEPT ![InquiryShard(id)] =
                        writeJson(module, InquiryShard(id), stored)]
        read == readJson(module, "inquiryIds", written["inquiryIds"], <<>>)
    IN  IF failAt = 1 THEN Effect(shards, ThrownError("Failed to create inquiry"))
        ELSE IF read.threw THEN Effect(written, ThrownError("Failed to create inquiry"))
        ELSE IF includes(read.val[1], id) THEN Effect(written, Returned(stored))
        ELSE IF failAt = 2 THEN Effect(written, ThrownError("Failed to create inquiry"))
        ELSE Effect([written EXCEPT !["inquiryIds"] =
                        writeJson(module, "inquiryIds", <<id>> \o read.val[1])],
                    Returned(stored))

\* updateInquiry: the stored record overwritten field by field by the updates;
\* 'Inquiry not found' is thrown inside the try block, whose catch replaces it
updateInquiry(module, shards, id, updates, failAt) ==
    LET read == readJson(module, InquiryShard(id), shards[InquiryShard(id)], Null)
    IN  IF read.threw \/ IsNull(read.val[1]) \/ failAt = 1
        THEN Effect(shards, ThrownError("Failed to update inquiry"))
        ELSE LET updatedInquiry == Spread(read.val[1], updates)
             IN  Effect([shards EXCEPT ![InquiryShard(id)] =
                            writeJson(module, InquiryShard(id), updatedInquiry)],
                        Returned(updatedInquiry))

\* the comparator of getInquiries, new Date(b.createdAt) - new Date(a.createdAt):
\* NaN when either is not a date, which sort takes as +0
byCreatedAtDesc(a, b) ==
    IF IsDate(a.createdAt) /\ IsDate(b.createdAt)
    THEN getTime(b.createdAt) - getTime(a.createdAt)
    ELSE 0

\* Array.prototype.sort with that comparator: stable, so an element goes in
\* front of the first one that it must precede
RECURSIVE sort(_)
sort(array) ==
    IF array = <<>> THEN <<>>
    ELSE LET sorted == sort(SubSeq(array, 1, Len(array) - 1))
             last == array[Len(array)]
             after == {k \in DOMAIN sorted : byCreatedAtDesc(sorted[k], last) > 0}
             at == IF after = {} THEN Len(sorted) + 1
                   ELSE CHOOSE k \in after : \A other \in after : k <= other
         IN  SubSeq(sorted, 1, at - 1) \o <<last>> \o SubSeq(sorted, at, Len(sorted))

\* getInquiries: the records of the ids in the index that are not null, sorted
\* by createdAt, latest first; [] when the index or (blob module) a record
\* cannot be read, since the reads are not caught one by one
getInquiries(module, shards) ==
    LET index == readJson(module, "inquiryIds", shards["inquiryIds"], <<>>)
        inquiryIds == IF index.threw THEN <<>> ELSE index.val[1]
        read(id) == readJson(module, InquiryShard(id), shards[InquiryShard(id)], Null)
        found(id) == ~IsNull(read(id).val[1])
        kept == SelectSeq(inquiryIds, found)
    IN  IF \E k \in DOMAIN inquiryIds : read(inquiryIds[k]).threw THEN <<>>
        ELSE sort([k \in DOMAIN kept |-> read(kept[k]).val[1]])

\* ---------------------------------------------------------- server requests
MaxRequests == 2     \* requests the server answers

\* the shards the store holds
StoreShards ==
    Sections \cup {"productIds", "inquiryIds"}
             \cup {ProductShard(id) : id \in ProductIds}
             \cup {InquiryShard(id) : id \in StoredInquiryIds}
             \cup {StrayShard}

\* the names updateSiteSection is called with: the modelled sections, an index
\* shard's name and an inherited property
SectionNames == Sections \cup {"productIds"} \cup InheritedKeys

\* an entry of the log of answered requests
Reply(op, args, status, res) == [op |-> op, args |-> args, status |-> status, res |-> res]

CanAnswer == Len(reply) < MaxRequests

Answer(entry, shards) ==
    /\ reply' = Append(reply, entry)
    /\ store' = shards
    /\ UNCHANGED <<backend, calls, provider>>

\* a direct call of the store's getSiteData
StoreGetSiteData ==
    /\ CanAnswer
    /\ Answer(Reply("getSiteData", <<>>, 0, getSiteData(backend, store)), store)

\* a direct call of the store's getAllProducts
StoreGetAllProducts ==
    /\ CanAnswer
    /\ Answer(Reply("getAllProducts", <<>>, 0, Returned(getAllProducts(backend, store))),
              store)

\* GET /inquiries: a call of the store's getInquiries
StoreGetInquiries ==
    /\ CanAnswer
    /\ Answer(Reply("getInquiries", <<>>, 200, Returned(getInquiries(backend, store))),
              store)

\* a request body without keys, as it arrives when the platform dropped it
EmptyBody == [empty |-> TRUE]

\* documents the admin sends with PUT /site-data: they hold p2 alone, or no
\* product
PutBodies ==
    {[locales |-> <<"zh">>, defaultLocale |-> "zh", settings |-> [siteName |-> [en |-> "X"]],
      featuredProductIds |-> <<"p2">>, products |-> <<Prod("p2", "b")>>],
     [locales |-> <<"zh">>, defaultLocale |-> "zh", settings |-> [siteName |-> [en |-> "X"]],
      featuredProductIds |-> <<"p2">>, products |-> <<>>],
     EmptyBody}

\* the loop of PUT /site-data over data.products: one awaited upsertProduct
\* after the other
RECURSIVE upsertEach(_, _, _)
upsertEach(module, shards, products) ==
    IF products = <<>> THEN shards
    ELSE upsertEach(module, upsertProduct(module, shards, Head(products), 0).store,
                    Tail(products))

\* the updateSiteSection calls that PUT /site-data starts for the sections the
\* body has, each on its own shard; refused is the one that fails, if any
RECURSIVE updateEach(_, _, _, _, _)
updateEach(module, shards, body, sections, refused) ==
    IF sections = {} THEN shards
    ELSE LET section == CHOOSE name \in sections : TRUE
             written == IF section \in DOMAIN body /\ section # refused
                        THEN updateSiteSection(module, shards, section,
                                               body[section], 0).store
                        ELSE shards
         IN  updateEach(module, written, body, sections \ {section}, refused)

\* PUT /site-data: 413 for a body without keys; else the sections of the body
\* are written, its products are upserted one by one, and the answer is 200,
\* or 500 when a call failed (failAt 1: the update of locales, 2: the first
\* upsert; the section updates, started before the loop, go on all the same).
\* No product is removed
PutSiteData(body, failAt) ==
    /\ CanAnswer
    /\ LET refused == IF failAt = 1 THEN "locales" ELSE ""
           sections == IF body = EmptyBody THEN store
                       ELSE updateEach(backend, store, body, Sections, refused)
           products == IF body = EmptyBody \/ failAt = 2 THEN sections
                       ELSE upsertEach(backend, sections, body.products)
           failed == failAt = 1 \/ (failAt = 2 /\ body.products # <<>>)
       IN  IF body = EmptyBody
           THEN Answer(Reply("PUT /site-data", <<body>>, 413, ThrownError("Request too large")),
                       store)
           ELSE IF failed
           THEN Answer(Reply("PUT /site-data", <<body>>, 500, ThrownError("Failed to update")),
                       IF failAt = 2 THEN sections ELSE products)
           ELSE Answer(Reply("PUT /site-data", <<body>>, 200, Returned(TRUE)), products)

\* the template document src/data/site-data.json that the deployment ships
TemplateData ==
    [locales |-> <<"en", "zh">>, defaultLocale |-> "en",
     settings |-> [siteName |-> [en |-> "T", zh |-> "T"]],
     featuredProductIds |-> <<"p1">>, products |-> <<Prod("p1", "a")>>]

\* existing && existing.siteName && existing.siteName.en &&
\* existing.siteName.en.trim() !== ''
hasRealSettings(existing) ==
    /\ ~IsNull(existing)
    /\ "siteName" \in DOMAIN existing
    /\ "en" \in DOMAIN existing.siteName
    /\ trim(existing.siteName.en) # ""

\* initializeDefaultData: nothing when the settings shard has an English site
\* name (or, blob module, when the settings blob exists at all); else every
\* section is written from the template, its products are upserted, and the
\* product index is rewritten with their ids and the inquiry index with []
initializeDefaultData(module, shards, defaultData) ==
    LET existing == readJson(module, "settings", shards["settings"], Null)
        sections == updateEach(module, shards, defaultData, Sections, "")
        products == upsertEach(module, sections, defaultData.products)
        productIds == [k \in DOMAIN defaultData.products |-> defaultData.products[k].id]
    IN  IF existing.threw THEN shards
        ELSE IF hasRealSettings(existing.val[1]) THEN shards
        ELSE IF module = "blob" /\ shards["settings"].kind # "none" THEN shards
        ELSE [products EXCEPT !["productIds"] = writeJson(module, "productIds", productIds),
                              !["inquiryIds"] = writeJson(module, "inquiryIds", <<>>)]

\* initDefaultDataIfNeeded: nothing when the document's English site name is
\* not blank, when no template file is found, or when getSiteData throws;
\* else initializeDefaultData with the template
initDefaultDataIfNeeded(module, shards, found) ==
    LET current == getSiteData(module, shards)
    IN  IF current.threw THEN shards
        ELSE IF trim(current.val[1].settings.siteName.en) # "" THEN shards
        ELSE IF ~found THEN shards
        ELSE initializeDefaultData(module, shards, TemplateData)

\* the server process starts (on the serverless platform: a cold start) and
\* index.js calls initDefaultDataIfNeeded
Startup(found) ==
    /\ CanAnswer
    /\ Answer(Reply("initDefaultDataIfNeeded", <<found>>, 0, Returned(TRUE)),
              initDefaultDataIfNeeded(backend, store, found))

\* GET /site-data: on the serverless platform (where the blob module is
\* used) initDefaultDataIfNeeded runs first, and once more when the document
\* read has no product and a blank English site name; 500 when the read throws
GetSiteData(found) ==
    /\ CanAnswer
    /\ LET isVercel == backend = "blob"
           checked == IF isVercel THEN initDefaultDataIfNeeded(backend, store, found)
                      ELSE store
           data == getSiteData(backend, checked)
           isEmpty == /\ data.val[1].products = <<>>
                      /\ trim(data.val[1].settings.siteName.en) = ""
           again == initDefaultDataIfNeeded(backend, checked, found)
       IN  IF data.threw
           THEN Answer(Reply("GET /site-data", <<found>>, 500, data), checked)
           ELSE IF isEmpty /\ isVercel
           THEN Answer(Reply("GET /site-data", <<found>>, 200, getSiteData(backend, again)),
                       again)
           ELSE Answer(Reply("GET /site-data", <<found>>, 200, data), checked)

\* values an administrator writes into a section
SectionValues(section) ==
    CASE section = "locales" -> {<<>>, <<"zh">>}
      [] section = "defaultLocale" -> {"en", "zh", "\"zh\""}
      [] section = "settings" -> {[logoUrl |-> "u"], [siteName |-> [en |-> "X"]]}
      [] section = "featuredProductIds" -> {<<>>, <<"p2">>}
      [] OTHER -> {<<>>}

\* a direct call of the store's updateSiteSection
StoreUpdateSiteSection(section, data, failAt) ==
    /\ CanAnswer
    /\ LET effect == updateSiteSection(backend, store, section, data, failAt)
       IN  Answer(Reply("updateSiteSection", <<section, data>>, 0, effect.res),
                  effect.store)

\* a direct call of the store's upsertProduct
StoreUpsertProduct(product, failAt) ==
    /\ CanAnswer
    /\ LET effect == upsertProduct(backend, store, product, failAt)
       IN  Answer(Reply("upsertProduct", <<product>>, 0, effect.res), effect.store)

\* a direct call of the store's deleteProduct (the log keeps, next to the id,
\* the step that the file system or the blob service made fail)
StoreDeleteProduct(id, failAt) ==
    /\ CanAnswer
    /\ LET effect == deleteProduct(backend, store, id, failAt)
       IN  Answer(Reply("deleteProduct", <<id, failAt>>, 0, effect.res), effect.store)

\* request bodies of POST /inquiries: what the site's form sends, and a body
\* that carries an id and a status
InquiryBodies == {[name |-> "A"], [name |-> "C", id |-> "i1", status |-> "closed"]}

\* request bodies of PATCH /inquiries/:id: what the admin page sends, and a
\* body with another field
InquiryUpdates == {[status |-> "closed"], [name |-> "C"]}

\* POST /inquiries: 201 with the record, 500 with the message
PostInquiry(body, generated, failAt) ==
    /\ CanAnswer
    /\ store[InquiryShard(generated)].kind = "none"
    /\ LET effect == createInquiry(backend, store, body, generated,
                                   toISOString(Len(reply) + 1), failAt)
       IN  Answer(Reply("POST /inquiries", <<body>>,
                        IF effect.res.threw THEN 500 ELSE 201, effect.res),
                  effect.store)

\* PATCH /inquiries/:id: 200 with the record, 404 for the message
\* 'Inquiry not found', 500 for any other
PatchInquiry(id, updates, failAt) ==
    /\ CanAnswer
    /\ LET effect == updateInquiry(backend, store, id, updates, failAt)
       IN  Answer(Reply("PATCH /inquiries/:id", <<id, updates>>,
                        IF ~effect.res.threw THEN 200
                        ELSE IF effect.res.val = <<"Inquiry not found">> THEN 404
                        ELSE 500,
                        effect.res),
                  effect.store)

\* the provider at rest while the server is studied on its own
ProviderIdle ==
    /\ siteData = getDefaultData
    /\ inquiries = <<>>
    /\ isLoading = FALSE
    /\ error = NoError
    /\ lsData = NoItem
    /\ lsInquiries = NoItem
    /\ apiConfigured = TRUE
    /\ quota = FALSE
    /\ tasks = [t \in Tasks |-> Idle]
    /\ nops = 0
    /\ ev = Event(Idle, "start", "", "pending")

\* a store of the given shard texts
Shards(locales, defaultLocale, settings, featuredProductIds, productIds, p1, p2, inquiryIds, i1, i2) ==
    [name \in StoreShards |->
        CASE name = "locales" -> locales
          [] name = "defaultLocale" -> defaultLocale
          [] name = "settings" -> settings
          [] name = "featuredProductIds" -> featuredProductIds
          [] name = "productIds" -> productIds
          [] name = ProductShard("p1") -> p1
          [] name = ProductShard("p2") -> p2
          [] name = "inquiryIds" -> inquiryIds
          [] name = InquiryShard("i1") -> i1
          [] name = InquiryShard("i2") -> i2
          [] OTHER -> NoItem]

EmptyStore == [name \in StoreShards |-> NoItem]

\* a store after a site was saved and one inquiry was received
PopulatedStore ==
    Shards(JSONstringify(<<"en", "zh">>), JSONstringify("en"),
           JSONstringify([siteName |-> [en |-> "X", zh |-> "X"], logoUrl |-> "l"]),
           JSONstringify(<<"p1">>), JSONstringify(<<"p1">>),
           JSONstringify(Prod("p1", "a")), NoItem,
           JSONstringify(<<"i1">>),
           JSONstringify(Inq("i1", "A", "new", toISOString(0))),
           NoItem)

InitStore ==
    /\ ProviderIdle
    /\ backend \in {"file", "blob"}
    /\ store \in {EmptyStore, PopulatedStore}
    /\ reply = <<>>
    /\ calls = <<>>

NextStore ==
    \/ StoreGetSiteData
    \/ \E section \in SectionNames, failAt \in {0, 1} :
          \E data \in SectionValues(section) :
             StoreUpdateSiteSection(section, data, failAt)
    \/ \E product \in InputProducts, failAt \in WriteOutcomes :
          StoreUpsertProduct(product, failAt)
    \/ \E id \in ProductIds, failAt \in DeleteOutcomes : StoreDeleteProduct(id, failAt)
    \/ \E body \in PutBodies, failAt \in WriteOutcomes : PutSiteData(body, failAt)
    \/ \E found \in BOOLEAN : Startup(found)
    \/ \E found \in BOOLEAN : GetSiteData(found)
    \/ \E body \in InquiryBodies, generated \in StoredInquiryIds,
          failAt \in WriteOutcomes :
          PostInquiry(body, generated, failAt)
    \/ \E id \in StoredInquiryIds, updates \in InquiryUpdates, failAt \in {0, 1} :
          PatchInquiry(id, updates, failAt)

SpecStore == InitStore /\ [][NextStore]_vars

\* ------------------------------------------------------ the inquiry list
\* request bodies of POST /inquiries that carry a createdAt of their own: a
\* date before the server's clock, one after it, and a text that is no date
DatedBodies ==
    {[name |-> "A"], [name |-> "B", createdAt |-> "2023-12-31"],
     [name |-> "B", createdAt |-> "2024-01-05"], [name |-> "B", createdAt |-> "soon"]}

\* request bodies of PATCH /inquiries/:id: a status, and another createdAt
DatedUpdates == {[status |-> "closed"], [createdAt |-> "2024-01-05"]}

InitInquiries ==
    /\ ProviderIdle
    /\ backend \in {"file", "blob"}
    /\ store \in {EmptyStore, PopulatedStore}
    /\ reply = <<>>
    /\ calls = <<>>

NextInquiries ==
    \/ StoreGetInquiries
    \/ \E body \in DatedBodies, generated \in StoredInquiryIds,
          failAt \in WriteOutcomes :
          PostInquiry(body, generated, failAt)
    \/ \E id \in StoredInquiryIds, updates \in DatedUpdates, failAt \in {0, 1} :
          PatchInquiry(id, updates, failAt)

SpecInquiries == InitInquiries /\ [][NextInquiries]_vars

\* ------------------------------------------- calls that overlap (blobStorage)
\* a call of blobStorage's upsertProduct or createInquiry suspended at one of
\* its awaits: the record it writes, the index it updates, the await it is at
\* and the index list it has read
Call(op, record, index, pc, ids) ==
    [op |-> op, record |-> record, index |-> index, pc |-> pc, ids |-> ids]

\* the calls started so far
Started == Len(reply) + Len(calls)

\* the record shard of a call
RecordShard(call) ==
    IF call.op = "upsertProduct" THEN ProductShard(call.record.id)
    ELSE InquiryShard(call.record.id)

\* upsertProduct is called: it is suspended at the write of its record
UpsertProductCall(product) ==
    /\ Started < MaxRequests
    /\ calls' = Append(calls, Call("upsertProduct", product, "productIds", "record", <<>>))
    /\ UNCHANGED <<backend, store, reply, provider>>

\* createInquiry is called with what the site's form sends: id, createdAt and
\* status are generated, and it is suspended at the write of its record
CreateInquiryCall(inquiry, generated) ==
    /\ Started < MaxRequests
    /\ store[InquiryShard(generated)].kind = "none"
    /\ \A k \in DOMAIN calls : calls[k].record.id # generated
    /\ LET stored == Spread(inquiry, [id |-> generated, status |-> "new",
                                      createdAt |-> toISOString(Started + 1)])
       IN  calls' = Append(calls, Call("createInquiry", stored, "inquiryIds", "record", <<>>))
    /\ UNCHANGED <<backend, store, reply, provider>>

\* the calls without the k-th
Settled(k) == SubSeq(calls, 1, k - 1) \o SubSeq(calls, k + 1, Len(calls))

\* await writeJsonBlob(record) settles and the read of the index is issued
RecordWritten(k) ==
    /\ k \in DOMAIN calls
    /\ calls[k].pc = "record"
    /\ store' = [store EXCEPT ![RecordShard(calls[k])] =
                     writeJson(backend, RecordShard(calls[k]), calls[k].record)]
    /\ calls' = [calls EXCEPT ![k].pc = "read"]
    /\ UNCHANGED <<backend, reply, provider>>

\* await readJsonBlob(index, []) settles: the call returns when the list has
\* the id, else it adds the id (push for a product, unshift for an inquiry)
\* and issues the write of the list
IndexRead(k) ==
    /\ k \in DOMAIN calls
    /\ calls[k].pc = "read"
    /\ LET call == calls[k]
           read == readJson(backend, call.index, store[call.index], <<>>)
           ids == read.val[1]
       IN  IF read.threw
           THEN /\ reply' = Append(reply, Reply(call.op, <<call.record>>, 0,
                                                ThrownError("Failed")))
                /\ calls' = Settled(k)
           ELSE IF includes(ids, call.record.id)
           THEN /\ reply' = Append(reply, Reply(call.op, <<call.record>>, 0,
                                                Returned(call.record)))
                /\ calls' = Settled(k)
           ELSE /\ calls' = [calls EXCEPT ![k].pc = "index",
                                          ![k].ids = IF call.op = "upsertProduct"
                                                     THEN Append(ids, call.record.id)
                                                     ELSE <<call.record.id>> \o ids]
                /\ reply' = reply
    /\ UNCHANGED <<backend, store, provider>>

\* await writeJsonBlob(index, list) settles and the call returns its record
IndexWritten(k) ==
    /\ k \in DOMAIN calls
    /\ calls[k].pc = "index"
    /\ store' = [store EXCEPT ![calls[k].index] =
                     writeJson(backend, calls[k].index, calls[k].ids)]
    /\ reply' = Append(reply, Reply(calls[k].op, <<calls[k].record>>, 0,
                                    Returned(calls[k].record)))
    /\ calls' = Settled(k)
    /\ UNCHANGED <<backend, provider>>

InitOverlap ==
    /\ ProviderIdle
    /\ backend = "blob"
    /\ store \in {EmptyStore, PopulatedStore}
    /\ reply = <<>>
    /\ calls = <<>>

NextOverlap ==
    \/ \E product \in InputProducts : UpsertProductCall(product)
    \/ \E inquiry \in {[name |-> "A"]}, generated \in StoredInquiryIds :
          CreateInquiryCall(inquiry, generated)
    \/ \E k \in 1..MaxRequests : RecordWritten(k)
    \/ \E k \in 1..MaxRequests : IndexRead(k)
    \/ \E k \in 1..MaxRequests : IndexWritten(k)

SpecOverlap == InitOverlap /\ [][NextOverlap]_vars

\* ------------------------------------------- the two backends side by side
\* the same request answered by fileStorage and by blobStorage, each on its
\* own shards; no write is refused on either side
Both(op, args, onFile, onBlob) ==
    /\ reply' = Append(reply, Reply(op, args, 0, <<onFile.res, onBlob.res>>))
    /\ store' = [file |-> onFile.store, blob |-> onBlob.store]
    /\ UNCHANGED <<backend, calls, provider>>

BothGetSiteData ==
    /\ CanAnswer
    /\ Both("getSiteData", <<>>,
            Effect(store.file, getSiteData("file", store.file)),
            Effect(store.blob, getSiteData("blob", store.blob)))

BothGetAllProducts ==
    /\ CanAnswer
    /\ Both("getAllProducts", <<>>,
            Effect(store.file, Returned(getAllProducts("file", store.file))),
            Effect(store.blob, Returned(getAllProducts("blob", store.blob))))

BothUpdateSiteSection(section, data) ==
    /\ CanAnswer
    /\ Both("updateSiteSection", <<section, data>>,
            updateSiteSection("file", store.file, section, data, 0),
            updateSiteSection("blob", store.blob, section, data, 0))

BothUpsertProduct(product) ==
    /\ CanAnswer
    /\ Both("upsertProduct", <<product>>,
            upsertProduct("file", store.file, product, 0),
            upsertProduct("blob", store.blob, product, 0))

BothDeleteProduct(id) ==
    /\ CanAnswer
    /\ Both("deleteProduct", <<id>>,
            deleteProduct("file", store.file, id, 0),
            deleteProduct("blob", store.blob, id, 0))

BothCreateInquiry(inquiry, generated) ==
    /\ CanAnswer
    /\ store.file[InquiryShard(generated)].kind = "none"
    /\ store.blob[InquiryShard(generated)].kind = "none"
    /\ Both("createInquiry", <<inquiry>>,
            createInquiry("file", store.file, inquiry, generated,
                          toISOString(Len(reply) + 1), 0),
            createInquiry("blob", store.blob, inquiry, generated,
                          toISOString(Len(reply) + 1), 0))

BothUpdateInquiry(id, updates) ==
    /\ CanAnswer
    /\ Both("updateInquiry", <<id, updates>>,
            updateInquiry("file", store.file, id, updates, 0),
            updateInquiry("blob", store.blob, id, updates, 0))

InitBackends ==
    /\ ProviderIdle
    /\ backend = "both"
    /\ store = [file |-> EmptyStore, blob |-> EmptyStore]
    /\ reply = <<>>
    /\ calls = <<>>

NextBackends ==
    \/ BothGetSiteData
    \/ BothGetAllProducts
    \/ \E section \in SectionNames :
          \E data \in SectionValues(section) : BothUpdateSiteSection(section, data)
    \/ \E product \in InputProducts : BothUpsertProduct(product)
    \/ \E id \in ProductIds : BothDeleteProduct(id)
    \/ \E inquiry \in InquiryBodies, generated \in StoredInquiryIds :
          BothCreateInquiry(inquiry, generated)
    \/ \E id \in StoredInquiryIds, updates \in InquiryUpdates :
          BothUpdateInquiry(id, updates)

SpecBackends == InitBackends /\ [][NextBackends]_vars

\* ------------------------------------------------ reading an incomplete store
\* the texts a shard can hold: none, an empty one, one that is not JSON, JSON
ShardTexts(value) == {NoItem, Blank, RawText("x"), JSONstringify(value)}

\* a settings shard filled in at the third level only
DeepPartial == [logoUrl |-> "u", seoDefaults |-> [title |-> [zh |-> "T"]]]

\* a defaultLocale shard left by a version that encoded the string twice: the
\* text "\"zh\"", whose JSON.parse is the string "zh" with its quotes
TwiceEncoded == JSONstringify("\"zh\"")

InitShards ==
    /\ ProviderIdle
    /\ backend \in {"file", "blob"}
    /\ \E locales \in ShardTexts(<<"zh">>),
          defaultLocale \in ShardTexts("zh") \cup {TwiceEncoded},
          settings \in ShardTexts([siteName |-> [en |-> "X"]]) \cup {JSONstringify(DeepPartial)},
          featuredProductIds \in ShardTexts(<<"p2">>),
          productIds \in {NoItem, RawText("x"), JSONstringify(<<"p2", "p1">>)},
          p1 \in {NoItem, RawText("x"), JSONstringify(Prod("p1", "a"))},
          p2 \in {NoItem, RawText("x"), JSONstringify(Prod("p2", "b"))} :
          store = Shards(locales, defaultLocale, settings, featuredProductIds,
                         productIds, p1, p2, NoItem, NoItem, NoItem)
    /\ reply = <<>>
    /\ calls = <<>>

NextShards ==
    \/ StoreGetSiteData
    \/ StoreGetAllProducts

SpecShards == InitShards /\ [][NextShards]_vars

\* ================================================================ properties
\* a step in which loadData commits (as loadData or as the refresh of an import)
IsLoadStep(e) == e.at \in {"fetch", "refresh"}

\* the Local Cache holds a document that the heuristic takes for real
CacheIsReal(item) == item.kind = "json" /\ hasRealData(item.val[1])

AllIdle == \A t \in Tasks : tasks[t] = Idle

\* C1: when the remote fetch fails and the Local Cache holds a document that is
\* non-empty by the heuristic, the load commits the cached document and the
\* cached inquiry list (not the default dataset).
C1_CachedBeforeDefault ==
    [][(IsLoadStep(ev') /\ ~ev'.resp.ok /\ CacheIsReal(lsData))
         => /\ siteData' = lsData.val[1]
            /\ inquiries' = (IF lsInquiries.kind = "json" THEN lsInquiries.val[1] ELSE <<>>)
            /\ lsData' = lsData]_vars

C1_Witness ==
    /\ IsLoadStep(ev) /\ ~ev.resp.ok
    /\ CacheIsReal(lsData) /\ siteData = lsData.val[1] /\ siteData # getDefaultData
    /\ Len(inquiries) > 0

C3_RemoteEmptyFallsBack ==
    [][(IsLoadStep(ev') /\ ev'.resp.ok /\ ~hasRealData(ev'.resp.data))
         => IF CacheIsReal(lsData)
            THEN siteData' = lsData.val[1] /\ siteData' # ev'.resp.data
            ELSE siteData' = getDefaultData /\ inquiries' = <<>>]_vars

C3_Witness ==
    /\ IsLoadStep(ev) /\ ev.resp.ok /\ ~hasRealData(ev.resp.data)
    /\ siteData = getDefaultData /\ error # NoError

\* C4 as stated: when the remote load fails and the cached document is absent,
\* unparsable or heuristic-empty, the load resolves with the default dataset
\* and the Local Cache holds the default dataset afterwards; a later load under
\* the same failure yields the default dataset again.
C4_DefaultMirrored ==
    [][(IsLoadStep(ev') /\ ~ev'.resp.ok /\ ~CacheIsReal(lsData))
         => /\ ev'.result = "resolved"
            /\ siteData' = getDefaultData
            /\ lsData' = JSONstringify(getDefaultData)]_vars

\* C4 amended: the load resolves with the default dataset, and writes it to the
\* Local Cache when setItem does not throw; a load under remote failure that
\* starts from what such a load left (the default in memory, the cache holding
\* the default or still no real document) yields the default dataset again.
C4_DefaultStable ==
    [][(IsLoadStep(ev') /\ ~ev'.resp.ok)
         => /\ ~CacheIsReal(lsData)
               => /\ ev'.result = "resolved"
                  /\ siteData' = getDefaultData
                  /\ ~quota => lsData' = JSONstringify(getDefaultData)
            /\ (siteData = getDefaultData
                /\ (lsData = JSONstringify(getDefaultData) \/ ~CacheIsReal(lsData)))
               => siteData' = siteData]_vars

\* the second of two loads, both under remote failure, served the default
\* dataset that the first one mirrored
C4_Witness ==
    /\ ~apiConfigured /\ nops = 1 /\ AllIdle
    /\ ev.task.op = "loadData" /\ ev.at = "fetch"
    /\ siteData = getDefaultData /\ lsData = JSONstringify(getDefaultData)
    /\ error[1] = "Using cached data"

\* C5 (checked under SpecHeuristic): the heuristic classifies a document as
\* empty exactly when its site name and hero title are blank in every locale
\* and it has no products.
BlankText(text) == \A l \in DOMAIN text : trim(text[l]) = ""

C5_EmptinessAllLocales ==
    ev.at = "hasRealData"
      => (ev.outcome = "empty"
            <=> /\ BlankText(siteData.settings.siteName)
                /\ BlankText(siteData.hero.title)
                /\ Len(siteData.products) = 0)

HoldsProductChange(data, task) ==
    IF task.op = "upsertProduct"
    THEN \E k \in DOMAIN data.products : data.products[k] = task.product[1]
    ELSE \A k \in DOMAIN data.products : data.products[k].id # task.id

HoldsStatusChange(list, task) ==
    \A k \in DOMAIN list : list[k].id = task.id => list[k].status = task.status

\* the steps of setSiteData, upsertProduct, deleteProduct and
\* updateInquiryStatus: the one that commits the new value (for the product
\* handlers, after their first call failed) and the one in which the last
\* remote call of the handler fails
DocCommitStep(e) ==
    \/ e.task.op = "setSiteData" /\ e.at = "start"
    \/ e.task.op \in {"upsertProduct", "deleteProduct"}
         /\ e.at \in {"post", "delete"} /\ e.outcome # "ok"

StatusCommitStep(e) == e.task.op = "updateInquiryStatus" /\ e.at = "start"

LastCallFailedStep(e) ==
    /\ e.task.op \in {"setSiteData", "upsertProduct", "deleteProduct",
                      "updateInquiryStatus"}
    /\ e.at \in {"put", "patch"}
    /\ e.outcome # "ok"

CommitsNewValue(e, data, list) ==
    /\ (e.task.op = "setSiteData" /\ e.at = "start") => data = e.task.data[1]
    /\ (DocCommitStep(e) /\ e.task.op # "setSiteData") => HoldsProductChange(data, e.task)
    /\ StatusCommitStep(e) => HoldsStatusChange(list, e.task)

ImportFailedNotSize(e) ==
    /\ e.task.op = "importSiteData" /\ e.at = "transport"
    /\ e.outcome \in {"http", "unconfigured"}

WriteOps == {"setSiteData", "upsertProduct", "deleteProduct", "addInquiry",
             "updateInquiryStatus", "importSiteData"}

C9_RejectsIffCacheWriteFails ==
    (ev.task.op \in WriteOps /\ ev.result \in {"resolved", "rejected"})
      => (ev.result = "rejected" <=> ev.task.threw)

\* C10: right after upsertProduct(p) has committed, the in-memory product list
\* has exactly one entry with p's id, and that entry is p.
C10_UpsertSingleEntry ==
    (ev.task.op = "upsertProduct" /\ ev.at = "post")
      => LET p == ev.task.product[1]
             at == {k \in DOMAIN siteData.products : siteData.products[k].id = p.id}
         IN  Cardinality(at) = 1 /\ \A k \in at : siteData.products[k] = p

\* the entries of a list whose id is not the given one, in their order
RECURSIVE WithoutId(_, _)
WithoutId(list, id) ==
    IF list = <<>> THEN <<>>
    ELSE IF Head(list).id = id THEN WithoutId(Tail(list), id)
    ELSE <<Head(list)>> \o WithoutId(Tail(list), id)

HasId(list, id) == \E k \in DOMAIN list : list[k].id = id

\* the step in which deleteProduct commits its list
DeleteCommitStep(e) == e.task.op = "deleteProduct" /\ e.at = "delete"

\* C11: when deleteProduct(id) commits, for an id present in the in-memory
\* product list (the list the handler was called on), the new list has no entry
\* with that id and holds every other entry, in the same relative order; the
\* rest of the document is unchanged.
C11_DeleteRemovesExactly ==
    [][(/\ DeleteCommitStep(ev')
        /\ ev'.task.snap[1] = siteData
        /\ HasId(siteData.products, ev'.task.id))
         => /\ siteData' = [siteData EXCEPT
                               !.products = WithoutId(siteData.products, ev'.task.id)]
            /\ ~HasId(siteData'.products, ev'.task.id)
            /\ Len(siteData'.products) < Len(siteData.products)]_vars

C11_Witness ==
    /\ DeleteCommitStep(ev)
    /\ HasId(ev.task.snap[1].products, ev.task.id)
    /\ Len(ev.task.snap[1].products) = 3
    /\ siteData.products = WithoutId(ev.task.snap[1].products, ev.task.id)
    /\ Len(siteData.products) = 2

\* the step in which upsertProduct commits its list
UpsertCommitStep(e) == e.task.op = "upsertProduct" /\ e.at = "post"

EntriesWithId(list, id) == {k \in DOMAIN list : list[k].id = id}

\* the list is what an upsertProduct(p) leaves: it has p's id, and every entry
\* with that id is p
AlreadyUpserted(list, p) ==
    /\ HasId(list, p.id)
    /\ \A k \in EntriesWithId(list, p.id) : list[k] = p

\* C12 (checked under SpecProducts): an upsertProduct(p) that commits on the
\* list a previous upsertProduct(p) left leaves that list as it is (same
\* entries, same order), with a single entry for p's id.
C12_UpsertIdempotent ==
    [][(/\ UpsertCommitStep(ev')
        /\ ev'.task.snap[1] = siteData
        /\ AlreadyUpserted(siteData.products, ev'.task.product[1]))
         => /\ siteData' = siteData
            /\ Cardinality(EntriesWithId(siteData'.products, ev'.task.id)) = 1]_vars

ProductCommitStep(e) == UpsertCommitStep(e) \/ DeleteCommitStep(e)

\* C18 (checked under SpecProducts): when an upsertProduct(A) and a
\* deleteProduct(B) with B different from A's id, called on the same document,
\* commit one after the other, the in-memory product list then contains A and
\* has no entry with id B, and so does the Local Cache when its write succeeds.
C18_ConcurrentWritesSafe ==
    [][(/\ ProductCommitStep(ev) /\ ProductCommitStep(ev')
        /\ ev.task.op # ev'.task.op
        /\ ev.task.id # ev'.task.id
        /\ ev.task.snap = ev'.task.snap)
         => LET up == IF ev.task.op = "upsertProduct" THEN ev.task ELSE ev'.task
                del == IF ev.task.op = "deleteProduct" THEN ev.task ELSE ev'.task
            IN  /\ \E k \in DOMAIN siteData'.products :
                      siteData'.products[k] = up.product[1]
                /\ ~HasId(siteData'.products, del.id)
                /\ ~quota => lsData' = JSONstringify(siteData')]_vars

\* the step in which an importSiteData returns
ImportEndStep(e) == e.task.op = "importSiteData" /\ e.result # "pending"

AddInquiryStep(e) == e.task.op = "addInquiry" /\ e.at = "post"

\* the inquiries of a list that were built locally
LocallyBuilt(list) ==
    {list[k] : k \in {j \in DOMAIN list : list[j].createdAt = "local"
                                          \/ list[j].id \in LocalIds}}

\* C14: an addInquiry whose remote call failed puts exactly one inquiry in the
\* list, at index 0, with a locally generated id, status "new", a local
\* timestamp and the caller's fields; the old entries follow in their order.
C14_OfflineInquiry ==
    [][(AddInquiryStep(ev') /\ ev'.outcome # "ok")
         => /\ Len(inquiries') = Len(inquiries) + 1
            /\ Tail(inquiries') = inquiries
            /\ Head(inquiries').id \in LocalIds \ idsOf(inquiries)
            /\ Head(inquiries').status = "new"
            /\ Head(inquiries').createdAt = "local"
            /\ Head(inquiries').name = ev'.task.id
            /\ ev'.result = "resolved"]_vars

C14_Witness ==
    /\ AddInquiryStep(ev) /\ ev.outcome # "ok"
    /\ Len(inquiries) = 2
    /\ Head(inquiries).id \in LocalIds /\ Head(inquiries).createdAt = "local"
    /\ inquiries[2].id \in ServerIds

\* C15: an addInquiry whose remote call succeeded puts exactly one inquiry in
\* the list, the server's (its id, its timestamp); the call adds no locally
\* built inquiry to the list or to the Local Cache.
C15_ServerInquiry ==
    [][(AddInquiryStep(ev') /\ ev'.outcome = "ok")
         => /\ Len(inquiries') = Len(inquiries) + 1
            /\ Tail(inquiries') = inquiries
            /\ Head(inquiries').id \in ServerIds
            /\ Head(inquiries').createdAt = "server"
            /\ LocallyBuilt(inquiries') = LocallyBuilt(inquiries)
            /\ lsInquiries' \in {lsInquiries, JSONstringify(inquiries')}
            /\ ~quota => lsInquiries' = JSONstringify(inquiries')]_vars

C15_Witness ==
    /\ AddInquiryStep(ev) /\ ev.outcome = "ok"
    /\ Len(inquiries) = 2
    /\ Head(inquiries).id \in ServerIds /\ Head(inquiries).createdAt = "server"
    /\ inquiries[2].id \in LocalIds
    /\ lsInquiries = JSONstringify(inquiries)

\* C17: an inquiry that is in the provider's list is still in it after every
\* step of the provider, loads included.
C17_InquiriesNeverRemoved ==
    [][idsOf(inquiries) \subseteq idsOf(inquiries')]_vars

\* the getSiteData answers in the log
Documents == {k \in DOMAIN reply : reply[k].op = "getSiteData"}

\* the records of the ids in the index whose record shard can be read
ReadableIndexed ==
    LET ids == IF store["productIds"].kind = "json" THEN store["productIds"].val[1]
               ELSE <<>>
        Readable(id) == store[ProductShard(id)].kind = "json"
        kept == SelectSeq(ids, Readable)
    IN  [k \in DOMAIN kept |-> store[ProductShard(kept[k])].val[1]]

\* a document with every section, whose settings have every field of the
\* skeleton
Complete(document) ==
    /\ DOMAIN document =
          {"locales", "defaultLocale", "settings", "featuredProductIds", "products"}
    /\ DOMAIN getDefaultSettings \subseteq DOMAIN document.settings
    /\ DOMAIN getDefaultSettings.siteName \subseteq DOMAIN document.settings.siteName

\* C19 (checked under SpecShards): whatever subset of section, index and record
\* shards exists, getSiteData does not throw unless a section shard that does
\* exist holds a text that is not JSON; the document it returns is complete,
\* every section whose shard is missing has its default value, and the product
\* list holds the readable records of the index, in index order.
C19_MissingShardsDefault ==
    \A k \in Documents :
       LET res == reply[k].res
       IN  IF res.threw
           THEN /\ backend = "blob"
                /\ \E section \in Sections : store[section].kind = "garbage"
           ELSE LET document == res.val[1]
                IN  /\ Complete(document)
                    /\ store["locales"].kind = "none"
                          => document.locales = <<"en", "zh">>
                    /\ store["defaultLocale"].kind = "none"
                          => document.defaultLocale = "en"
                    /\ store["settings"].kind = "none"
                          => document.settings = getDefaultSettings
                    /\ store["featuredProductIds"].kind = "none"
                          => document.featuredProductIds = <<>>
                    /\ document.products = ReadableIndexed

\* C19 witness: on the blob backend a document was returned from a store that
\* lacks the locales and defaultLocale shards and one indexed record
C19_Witness ==
    /\ backend = "blob"
    /\ Documents # {}
    /\ \A k \in Documents : ~reply[k].res.threw
    /\ store["locales"].kind = "none"
    /\ store["defaultLocale"].kind = "none"
    /\ store["settings"].kind = "json"
    /\ store["productIds"].kind = "json"
    /\ store[ProductShard("p1")].kind = "none"
    /\ store[ProductShard("p2")].kind = "json"

\* the section of the document shows the value written: the value itself for
\* a list, the locale it names for defaultLocale, each of its fields for
\* settings
Reflects(document, section, value) ==
    IF section = "settings"
    THEN \A key \in DOMAIN value :
            IF key \in ObjectKeys
            THEN \A inner \in DOMAIN value[key] :
                    document.settings[key][inner] = value[key][inner]
            ELSE document.settings[key] = value[key]
    ELSE IF section = "defaultLocale"
    THEN document.defaultLocale = (IF value = "\"zh\"" THEN "zh" ELSE value)
    ELSE document[section] = value

\* a getSiteData answered right after an updateSiteSection that returned
ReadsAfterWrite ==
    {k \in DOMAIN reply :
        /\ k > 1
        /\ reply[k].op = "getSiteData"
        /\ reply[k - 1].op = "updateSiteSection"
        /\ reply[k - 1].args[1] \in fileMap
        /\ ~reply[k - 1].res.threw}

\* C20 (checked under SpecStore): a getSiteData that follows a completed
\* updateSiteSection(name, v) returns a document whose section name reflects v,
\* on both backends.
C20_ReadYourWrites ==
    \A k \in ReadsAfterWrite :
       /\ ~reply[k].res.threw
       /\ Reflects(reply[k].res.val[1], reply[k - 1].args[1], reply[k - 1].args[2])

\* the inquiry records the store holds
Created(shards) == {id \in StoredInquiryIds : shards[InquiryShard(id)].kind = "json"}

StoredInquiry(shards, id) == shards[InquiryShard(id)].val[1]

\* the request answered by this step is a PATCH /inquiries/:id for the id
PatchOf(id) ==
    /\ reply' # reply
    /\ reply'[Len(reply')].op = "PATCH /inquiries/:id"
    /\ reply'[Len(reply')].args[1] = id

\* C16 (checked under SpecStore): no request changes a field other than status
\* of an inquiry that was created: every stored inquiry keeps its id, its
\* contact fields and its creation timestamp, and its status changes only in
\* a PATCH /inquiries/:id for its own id.
C16_OnlyStatusMutable ==
    [][\A id \in Created(store) :
          /\ id \in Created(store')
          /\ \A key \in DOMAIN StoredInquiry(store, id) \ {"status"} :
                /\ key \in DOMAIN StoredInquiry(store', id)
                /\ StoredInquiry(store', id)[key] = StoredInquiry(store, id)[key]
          /\ StoredInquiry(store', id).status # StoredInquiry(store, id).status
                => PatchOf(id)]_vars

\* the request answered by this step
Answered == reply'[Len(reply')]

\* this step answers a deleteProduct(id) in which no write or removal was
\* refused by the file system or the blob service
DeleteProductStep(id) ==
    /\ reply' # reply
    /\ Answered.op = "deleteProduct"
    /\ Answered.args = <<id, 0>>

\* the store's product list and featured list
ListProducts(shards) == getAllProducts(backend, shards)

Featured(shards) == getSiteData(backend, shards).val[1].featuredProductIds

\* C21 (checked under SpecStore): after deleteProduct(id) for a product that
\* exists, the product list has no product with that id, the featured list
\* does not contain the id, and every other product and featured id is still
\* there, on both backends.
C21_DeleteCascades ==
    [][\A id \in ProductIds :
          DeleteProductStep(id) /\ HasId(ListProducts(store), id)
          => /\ ~Answered.res.threw
             /\ ListProducts(store') = WithoutId(ListProducts(store), id)
             /\ getSiteData(backend, store').val[1].products = ListProducts(store')
             /\ Featured(store') = without(Featured(store), id)]_vars

\* the getSiteData answers that follow a completed write of defaultLocale
DefaultLocaleReads == {k \in ReadsAfterWrite : reply[k - 1].args[1] = "defaultLocale"}

\* C22 (checked under SpecStore): after updateSiteSection("defaultLocale", s)
\* with s a supported locale, or the JSON text of one, getSiteData returns the
\* bare locale string as defaultLocale, on both backends.
C22_DefaultLocaleBare ==
    \A k \in DefaultLocaleReads :
       /\ ~reply[k].res.threw
       /\ reply[k].res.val[1].defaultLocale =
             (IF reply[k - 1].args[2] = "en" THEN "en" ELSE "zh")

\* C22 witness: the JSON text of "zh" was written on the filesystem backend
\* and the document was read after it
C22_Witness ==
    /\ backend = "file"
    /\ \E k \in DefaultLocaleReads : reply[k - 1].args[2] = "\"zh\""

\* two results are equal: both are exceptions, or both are the same value
SameResult(onFile, onBlob) ==
    /\ onFile.threw = onBlob.threw
    /\ ~onFile.threw => onFile.val = onBlob.val

\* C23 (checked under SpecBackends): for every sequence of updateSiteSection,
\* upsertProduct, deleteProduct, createInquiry and updateInquiry calls on an
\* initially empty store, the filesystem backend and the blob backend give
\* equal results (or both fail) for each call and for getSiteData and
\* getAllProducts afterwards.
C23_BackendsAgree ==
    \A k \in DOMAIN reply : SameResult(reply[k].res[1], reply[k].res[2])

\* the whole-document transport of an import was refused because the payload
\* is too large: 413 from PUT /site-data or from the upload, or the upload
\* refused by the server's file size limit
RefusedTooLarge(e) ==
    /\ e.task.op = "importSiteData" /\ e.at = "transport"
    /\ e.outcome \in {"too_large", "file_limit"}

\* a step of the partial updates of an import that the server accepted
PartialUpdateAccepted(e) ==
    /\ e.task.op = "importSiteData" /\ e.at \in {"sections", "batch"}
    /\ e.outcome = "ok"

\* C24 (checked under Spec): when the whole-document transport of
\* importSiteData is refused because the payload is too large, the import does
\* not reject but goes on to the per-section updates; and when those and the
\* product batches are accepted it does not reject either, and after the last
\* of them the imported document is committed.
C24_TooLargeFallsBack ==
    [][/\ RefusedTooLarge(ev')
          => \E t \in Tasks : /\ tasks'[t] = [ev'.task EXCEPT !.pc = "sections"]
                              /\ ev'.result = "pending"
       /\ PartialUpdateAccepted(ev')
          => /\ ev'.result = "pending"
             /\ \E t \in Tasks :
                   \/ tasks'[t].op = "importSiteData" /\ tasks'[t].pc = "batch"
                   \/ /\ tasks'[t].op = "importSiteData" /\ tasks'[t].pc = "refresh"
                      /\ siteData' = ev'.task.data[1]]_vars

\* this step answers a PATCH /inquiries/:id for an id with no stored inquiry
PatchOfAbsent ==
    /\ reply' # reply
    /\ Answered.op = "PATCH /inquiries/:id"
    /\ store[InquiryShard(Answered.args[1])].kind = "none"

\* C25 (checked under SpecStore): PATCH /inquiries/:id for an id that has no
\* stored inquiry answers 404 and leaves every shard unchanged.
C25_PatchAbsentIs404 ==
    [][PatchOfAbsent => Answered.status = 404 /\ store' = store]_vars

\* the per-product call of a product handler has been issued and not settled
ProductCallPending(t) ==
    /\ tasks[t].op \in {"upsertProduct", "deleteProduct"}
    /\ tasks[t].pc \in {"post", "delete"}

\* the document shows the change the handler is making
ShowsChange(document, task) ==
    IF task.op = "upsertProduct"
    THEN \E k \in DOMAIN document.products : document.products[k] = task.product[1]
    ELSE ~HasId(document.products, task.id)

\* C26 (checked under Spec): while the per-product call of upsertProduct or
\* deleteProduct is pending, the in-memory document already shows the new
\* product list and the Local Cache holds that document.
C26_OptimisticCommit ==
    \A t \in Tasks :
       ProductCallPending(t)
       => /\ ShowsChange(siteData, tasks[t])
          /\ lsData = JSONstringify(siteData)

\* C27 (checked under Spec): upsertProduct(p) commits, for the product list
\* it was called on: when an entry has p's id, the list of the same length with
\* p at the position of each such entry and every other entry unchanged in
\* place; when no entry has p's id, p followed by the list in its old order.
C27_ReplaceOrPrepend ==
    [][UpsertCommitStep(ev')
         => LET old == ev'.task.snap[1].products
                p == ev'.task.product[1]
                new == siteData'.products
            IN  IF HasId(old, p.id)
                THEN /\ Len(new) = Len(old)
                     /\ \A k \in DOMAIN old :
                           new[k] = (IF old[k].id = p.id THEN p ELSE old[k])
                ELSE new = <<p>> \o old]_vars

\* C27 witness: an upsertProduct committed a product whose id was absent from
\* a list that was not empty
C27_Witness ==
    /\ UpsertCommitStep(ev)
    /\ ev.task.snap[1].products # <<>>
    /\ ~HasId(ev.task.snap[1].products, ev.task.product[1].id)
    /\ Head(siteData.products) = ev.task.product[1]
    /\ Len(siteData.products) = Len(ev.task.snap[1].products) + 1

\* the ids in the product index
IndexedIds ==
    IF store["productIds"].kind = "json"
    THEN {store["productIds"].val[1][k] : k \in DOMAIN store["productIds"].val[1]}
    ELSE {}

\* C28 (checked under SpecStore, where a call of upsertProduct or deleteProduct
\* can stop after any of its writes or removals): every id in the product
\* index has a readable record shard.
C28_IndexNeverDangles ==
    \A id \in IndexedIds : store[ProductShard(id)].kind = "json"

\* result is shard completed from skeleton: at every depth, a field the shard
\* lacks has the skeleton's value and a field the shard has keeps its value
RECURSIVE Completes(_, _, _)
Completes(result, skeleton, shard) ==
    \A key \in DOMAIN skeleton \cup DOMAIN shard :
       /\ key \in DOMAIN result
       /\ IF key \notin DOMAIN shard THEN result[key] = skeleton[key]
          ELSE IF key \in DOMAIN skeleton /\ key \in ObjectKeys
          THEN Completes(result[key], skeleton[key], shard[key])
          ELSE result[key] = shard[key]

\* C29 (checked under SpecShards): the settings of a document returned by
\* getSiteData are the settings shard deep-merged with the skeleton: every
\* field of the skeleton that the shard lacks, at any depth, has its empty
\* default, and every field of the shard keeps the shard's value.
C29_DeepMergeFills ==
    \A k \in Documents :
       ~reply[k].res.threw /\ store["settings"].kind = "json"
       => Completes(reply[k].res.val[1].settings, getDefaultSettings,
                    store["settings"].val[1])

\* C29 witness: on the blob backend a document was returned from a settings
\* shard that lacks siteName and seoDefaults.title.en
C29_Witness ==
    /\ backend = "blob"
    /\ store["settings"] = JSONstringify(DeepPartial)
    /\ \E k \in Documents :
          /\ ~reply[k].res.threw
          /\ reply[k].res.val[1].settings.seoDefaults.title = [en |-> "", zh |-> "T"]
          /\ reply[k].res.val[1].settings.siteName = [en |-> "", zh |-> ""]
          /\ reply[k].res.val[1].settings.logoUrl = "u"

\* this step answers an updateSiteSection
UpdateSectionStep == reply' # reply /\ Answered.op = "updateSiteSection"

ProductLists == {k \in DOMAIN reply : reply[k].op = "getAllProducts"}

\* C31 (checked under SpecShards): whatever the index and record shards hold,
\* getAllProducts does not throw and returns exactly the records of the indexed
\* ids whose shard can be read, in index order; a missing or unreadable record
\* is left out, it does not fail the read.
C31_ListProductsBestEffort ==
    \A k \in ProductLists :
       /\ ~reply[k].res.threw
       /\ reply[k].res.val[1] = ReadableIndexed

\* C31 witness: the index names two records, the first cannot be read, and
\* getAllProducts returned the second alone
C31_Witness ==
    /\ ProductLists # {}
    /\ store["productIds"].kind = "json"
    /\ store[ProductShard("p2")].kind = "garbage"
    /\ store[ProductShard("p1")].kind = "json"
    /\ \A k \in ProductLists : reply[k].res.val[1] = <<Prod("p1", "a")>>

\* a step in which getInquiries answers
GetInquiriesStep == reply' # reply /\ Answered.op = "getInquiries"

\* the inquiries of the ids in the index whose record shard can be read
ReadableInquiries ==
    LET ids == IF store["inquiryIds"].kind = "json" THEN store["inquiryIds"].val[1]
               ELSE <<>>
        Readable(id) == store[InquiryShard(id)].kind = "json"
        kept == SelectSeq(ids, Readable)
    IN  {store[InquiryShard(kept[k])].val[1] : k \in DOMAIN kept}

\* each element of the list is created no earlier than the next one
NewestFirst(list) ==
    \A k \in 1..(Len(list) - 1) :
       /\ IsDate(list[k].createdAt)
       /\ IsDate(list[k + 1].createdAt)
       /\ getTime(list[k].createdAt) >= getTime(list[k + 1].createdAt)

\* C32 (checked under SpecInquiries): after any sequence of createInquiry and
\* updateInquiry calls, getInquiries returns the readable indexed inquiries,
\* each one once, with every element created no earlier than the next one.
C32_NewestFirst ==
    [][GetInquiriesStep =>
          LET list == Answered.res.val[1]
          IN  /\ {list[k] : k \in DOMAIN list} = ReadableInquiries
              /\ Len(list) = Cardinality(ReadableInquiries)
              /\ NewestFirst(list)]_vars

\* C33 (checked under SpecShards): when the defaultLocale shard holds a locale
\* string that was JSON-encoded twice, the document that getSiteData returns
\* has the bare locale string as its defaultLocale, on both backends (the read
\* throws only on the blob backend, for another section that is not JSON).
C33_TwiceEncodedUnwrapped ==
    \A k \in Documents :
       store["defaultLocale"] = TwiceEncoded
          => IF reply[k].res.threw
             THEN /\ backend = "blob"
                  /\ \E section \in Sections \ {"defaultLocale"} :
                        store[section].kind = "garbage"
             ELSE reply[k].res.val[1].defaultLocale = "zh"

\* C33 witness: the blob backend returned a document from a store whose
\* defaultLocale shard is encoded twice
C33_Witness ==
    /\ backend = "blob"
    /\ store["defaultLocale"] = TwiceEncoded
    /\ \E k \in Documents :
          /\ ~reply[k].res.threw
          /\ reply[k].res.val[1].defaultLocale = "zh"

\* the getSiteData answers that follow a PUT /site-data answered with 200
ReadsAfterPut ==
    {k \in Documents : k > 1 /\ reply[k - 1].op = "PUT /site-data"
                             /\ reply[k - 1].status = 200}

\* C34 (checked under SpecStore): the document read after a successful PUT
\* /site-data with document D holds exactly the products of D and D's
\* sections.
C34_PutReplaces ==
    \A k \in ReadsAfterPut :
       LET D == reply[k - 1].args[1]
       IN  /\ ~reply[k].res.threw
           /\ reply[k].res.val[1].products = D.products
           /\ \A section \in Sections : Reflects(reply[k].res.val[1], section, D[section])

\* the handlers that write the document
DocumentWrites == {"setSiteData", "upsertProduct", "deleteProduct", "importSiteData"}

\* a step with which a handler's promise resolves
Resolves(ops) == ev'.result = "resolved" /\ ev'.task.op \in ops

\* C35 (checked under Spec): when loadData or a document write completes and
\* localStorage accepts writes, the document stored under the site-data key is
\* the in-memory document.
C35_CacheMirrorsDocument ==
    [][Resolves({"loadData"} \cup DocumentWrites) /\ ~quota
          => getStoredData(lsData') = <<siteData'>>]_vars

\* C35 witness: an upsertProduct has completed, localStorage accepts writes,
\* and the stored document is the in-memory one with the product in it
C35_Witness ==
    /\ ev.task.op = "upsertProduct"
    /\ ev.result = "resolved"
    /\ ~quota
    /\ HasId(siteData.products, ev.task.id)
    /\ getStoredData(lsData) = <<siteData>>

\* C36 (checked under Spec): when loadData, addInquiry or updateInquiryStatus
\* completes and localStorage accepts writes, the inquiry list stored under the
\* inquiries key is the in-memory inquiry list, whichever tier a load took.
C36_CacheMirrorsInquiries ==
    [][Resolves({"loadData", "addInquiry", "updateInquiryStatus"}) /\ ~quota
          => getStoredInquiries(lsInquiries') = inquiries']_vars

\* a step in which initDefaultDataIfNeeded runs: at start-up, or inside GET
\* /site-data
InitDefaultStep ==
    reply' # reply /\ Answered.op \in {"initDefaultDataIfNeeded", "GET /site-data"}

\* something has been written: a section, a product or an inquiry is stored
HasContent == \E name \in StoreShards : store[name].kind # "none"

\* C38 (checked under SpecStore): once a section, a product or an inquiry is
\* stored, a run of initDefaultDataIfNeeded, at start-up or in GET /site-data,
\* changes no shard.
C38_InitNeverOverwrites ==
    [][InitDefaultStep /\ HasContent => store' = store]_vars

\* the calls of the operation that returned their record
Returns(op) == {k \in DOMAIN reply : reply[k].op = op /\ ~reply[k].res.threw}

\* the list a stored index holds
IndexOf(name) ==
    IF store[name].kind = "json" THEN store[name].val[1] ELSE <<>>

\* C37 (checked under SpecOverlap): on the blob backend, when two calls of
\* upsertProduct for distinct ids, or of createInquiry, have both returned and
\* no call is in flight, the index holds both ids and getAllProducts returns
\* both products, however the two calls overlapped.
C37_OverlapKeepsBoth ==
    calls = <<>> =>
       /\ \A k \in Returns("upsertProduct") :
             /\ includes(IndexOf("productIds"), reply[k].args[1].id)
             /\ HasId(ListProducts(store), reply[k].args[1].id)
       /\ \A k \in Returns("createInquiry") :
             includes(IndexOf("inquiryIds"), reply[k].args[1].id)

\* the step in which a provider write commits its change
WriteCommitStep(e) ==
    \/ e.task.op \in {"upsertProduct", "deleteProduct"} /\ e.at \in {"post", "delete"}
    \/ e.task.op = "addInquiry" /\ e.at = "post"
    \/ e.task.op = "updateInquiryStatus" /\ e.at = "start"

\* the change that the write committed into (before, list) is in (data, after)
StillPresent(task, before, data, after) ==
    CASE task.op \in {"upsertProduct", "deleteProduct"} -> HoldsProductChange(data, task)
      [] task.op = "addInquiry" -> \E k \in DOMAIN after : after[k] = Head(before)
      [] OTHER ->
            \A k \in DOMAIN before :
               before[k].id = task.id =>
                  \E j \in DOMAIN after :
                     after[j].id = task.id /\ after[j].status = task.status

\* a step in which a load commits its result
LoadCommitStep == ev' # ev /\ IsLoadStep(ev')

\* C39 (checked under Spec): when a write has committed its change while a
\* load was in flight, the in-memory state still holds the change after the
\* load has committed.
C39_LoadKeepsWrites ==
    [][LoadCommitStep /\ WriteCommitStep(ev)
          => StillPresent(ev.task, inquiries, siteData', inquiries')]_vars

\* a step of importSiteData before the server has accepted the document: its
\* start, a settled await after which it goes on to the partial updates, or
\* its rejection
ImportBeforeAccept ==
    /\ ev' # ev
    /\ ev'.task.op = "importSiteData"
    /\ ev'.at # "refresh"
    /\ \A t \in Tasks : tasks'[t].pc = "refresh" => tasks[t].pc = "refresh"

====
